---- MODULE Spec2Model ----
(***************************************************************************)
(* Fleet execution engine of Xpod_Executor: the session pool               *)
(* (core/node_manager.py) and the task dispatcher (core/task_executor.py), *)
(* with the configuration lookups they use (config/settings.py).           *)
(*                                                                         *)
(* One call of TaskExecutor.execute_task or NodeManager.connect_nodes runs *)
(* on the main thread and fans out over the worker threads of a            *)
(* ThreadPoolExecutor; one more thread issues pool operations              *)
(* (connect_node, disconnect_node, disconnect_all,                         *)
(* cleanup_idle_connections) at any time.  Locks are the map lock of       *)
(* NodeManager and the lock of each SSHConnection.                         *)
(*                                                                         *)
(* Python's Optional values are sets of at most one element: {} is None.   *)
(***************************************************************************)
EXTENDS Integers, Sequences, FiniteSets, TLC

\* ------------------------------------------------------------------ bounds
MaxTargets == 2       \* longest list of target node ids
MaxRetry == 1         \* largest task.retry_count
MaxOps == 1           \* pool operations issued by the other thread
MaxTime == 1          \* last tick of the clock
MaxExpr == 4          \* longest selection expression, in characters
MaxParses == 3        \* parse_selection calls made on one NodeSelector

\* ----------------------------------------------------------- configuration
\* config.nodes: node 1 is enabled, node 2 is disabled; any other id is not
\* configured.
ConfigNodes == << [id |-> 1, enabled |-> TRUE], [id |-> 2, enabled |-> FALSE] >>

NodeIds == {ConfigNodes[k].id : k \in 1..Len(ConfigNodes)}
IdUniverse == NodeIds \cup {Len(ConfigNodes) + 1}

IsEnabled(n) == n.enabled

\* ConfigManager.get_nodes
get_nodes(enabled_only) ==
    IF enabled_only THEN SelectSeq(ConfigNodes, IsEnabled) ELSE ConfigNodes

\* ConfigManager.get_node_by_id: the first node with that id, or None
get_node_by_id(node_id) ==
    LET all == get_nodes(FALSE)
        hits == {k \in 1..Len(all) : all[k].id = node_id}
    IN  IF hits = {} THEN {}
        ELSE {all[CHOOSE k \in hits : \A j \in hits : k <= j]}

\* ConfigManager.get_nodes_by_ids: ids that name no node are skipped
RECURSIVE get_nodes_by_ids(_)
get_nodes_by_ids(node_ids) ==
    IF node_ids = << >> THEN << >>
    ELSE LET node == get_node_by_id(Head(node_ids))
         IN  (IF node # {} THEN << CHOOSE n \in node : TRUE >> ELSE << >>)
             \o get_nodes_by_ids(Tail(node_ids))

RECURSIVE SeqsUpTo(_, _)
SeqsUpTo(S, n) ==
    IF n = 0 THEN {<< >>}
    ELSE LET shorter == SeqsUpTo(S, n - 1)
         IN  shorter \cup {Append(s, x) : s \in shorter, x \in S}

Min(a, b) == IF a <= b THEN a ELSE b

\* TaskType: the kinds execute_task_on_node has a branch for, and one it has not
SupportedTypes == {"shell_command", "docker_pull", "docker_build", "docker_push"}
TaskTypes == {"shell_command", "file_upload"}

\* every member of TaskType
AllTaskTypes == SupportedTypes \cup {"file_upload", "file_download"}

\* the delays a task can carry: time.sleep raises ValueError on a negative one
RetryDelays == {0 - 1, 5}

\* task.extra_params: None, an empty dict, a dict with a tag (a dict is the set
\* of its key-value pairs)
NoExtras == {}
ExtraParams ==
    {NoExtras, {{}}, {{<< "tag", "v1" >>}}, {{<< "no_cache", "1" >>}}}

\* task.extra_params.get('tag', 'latest') if task.extra_params else 'latest'
tag_of(extra_params) ==
    IF extra_params = {} \/ extra_params = {{}}
    THEN "latest"
    ELSE LET d == CHOOSE x \in extra_params : TRUE
         IN  IF \E kv \in d : kv[1] = "tag"
             THEN (CHOOSE kv \in d : kv[1] = "tag")[2]
             ELSE "latest"

\* the build command always tagged 'latest'
render_command_untagged(t) ==
    IF t.task_type = "shell_command" THEN << t.command >>
    ELSE IF t.task_type = "docker_pull" THEN << "docker", "pull", t.command >>
    ELSE IF t.task_type = "docker_build"
    THEN << "docker", "build", "-t", "latest", t.command >>
    ELSE IF t.task_type = "docker_push" THEN << "docker", "push", t.command >>
    ELSE << >>

\* execute_task_on_node: the command handed to connection.execute_command,
\* word by word
render_command(t) ==
    IF t.task_type = "shell_command" THEN << t.command >>
    ELSE IF t.task_type = "docker_pull" THEN << "docker", "pull", t.command >>
    ELSE IF t.task_type = "docker_build"
    THEN << "docker", "build", "-t", tag_of(t.extra_params), t.command >>
    ELSE IF t.task_type = "docker_push" THEN << "docker", "push", t.command >>
    ELSE << >>

\* -------------------------------------------------------------- credentials
\* what can be configured: key_file and password in the node's entry of the
\* YAML file, key_file and password in its ssh section, SSH_PASSWORD in the
\* environment; key_exists: the pool's key file is there (os.path.exists)
Credentials ==
    [node : [key_file : BOOLEAN, password : BOOLEAN],
     ssh : [key_file : BOOLEAN, password : BOOLEAN],
     env : BOOLEAN, key_exists : BOOLEAN]

\* a pool with a default password and nothing else
PasswordOnly ==
    [node |-> [key_file |-> FALSE, password |-> FALSE],
     ssh |-> [key_file |-> FALSE, password |-> TRUE],
     env |-> FALSE, key_exists |-> FALSE]

\* the fields of NodeConfig that carry a credential: the model declares
\* password and no key_file, so a key_file of the node's YAML entry is dropped
\* when Config(**config_data) is built
NodeConfigFields == {"password"}

\* self.node as loaded
LoadedNode(c) == [f \in NodeConfigFields |-> c.node[f]]

\* connect, key_file = self.node.key_file if hasattr(self.node, 'key_file')
\* and self.node.key_file else self.ssh_config.key_file
key_file_of(c) ==
    LET node == LoadedNode(c)
    IN  IF "key_file" \in DOMAIN node /\ node["key_file"] THEN "node_key"
        ELSE IF c.ssh.key_file THEN "pool_key"
        ELSE "none"

\* connect, password = self.node.password or self.ssh_config.password or
\* os.getenv('SSH_PASSWORD')
password_of(c) ==
    LET node == LoadedNode(c)
    IN  IF node["password"] THEN "node_password"
        ELSE IF c.ssh.password THEN "pool_password"
        ELSE IF c.env THEN "env_password"
        ELSE "none"

\* connect, the credential put into connect_kwargs; "none": ValueError is
\* raised.  A key file that is configured but not there falls back to the
\* passwords.
pick_credential(c) ==
    IF key_file_of(c) # "none" /\ c.key_exists
    THEN key_file_of(c)
    ELSE password_of(c)

\* ------------------------------------------------------------ NodeSelector
\* A text is a sequence of characters.  The characters a selection expression
\* is made of here: decimal digits, the superscript two (a digit for
\* str.isdigit, which int() does not convert and \d does not match), the
\* separators, and letters in both cases.
DecimalDigits == << "0", "1", "2", "3", "4", "5", "6", "7", "8", "9" >>
OtherDigits == {"²"}
Whitespace == {" ", "\n"}
UpperLetters == << "A", "B", "D", "E", "L", "N", "S", "I", "P", "Y", "H" >>
LowerLetters == << "a", "b", "d", "e", "l", "n", "s", "i", "p", "y", "h" >>

IsDecimal(c) == \E k \in 1..Len(DecimalDigits) : DecimalDigits[k] = c

DigitValue(c) == (CHOOSE k \in 1..Len(DecimalDigits) : DecimalDigits[k] = c) - 1

\* str.lower
lower(s) ==
    [k \in 1..Len(s) |->
        IF \E j \in 1..Len(UpperLetters) : UpperLetters[j] = s[k]
        THEN LowerLetters[CHOOSE j \in 1..Len(UpperLetters) : UpperLetters[j] = s[k]]
        ELSE s[k]]

\* str.strip
RECURSIVE strip(_)
strip(s) ==
    IF s = << >> THEN s
    ELSE IF Head(s) \in Whitespace THEN strip(Tail(s))
    ELSE IF s[Len(s)] \in Whitespace THEN strip(SubSeq(s, 1, Len(s) - 1))
    ELSE s

\* str.split(sep): the pieces between the separators, empty ones included
RECURSIVE split(_, _)
split(s, sep) ==
    LET cuts == {k \in 1..Len(s) : s[k] = sep}
    IN  IF cuts = {} THEN << s >>
        ELSE LET k == CHOOSE c \in cuts : \A d \in cuts : c <= d
             IN  << SubSeq(s, 1, k - 1) >> \o split(SubSeq(s, k + 1, Len(s)), sep)

\* str.isdigit
isdigit(s) ==
    s # << >> /\ \A k \in 1..Len(s) : IsDecimal(s[k]) \/ s[k] \in OtherDigits

\* int(s): the value, or nothing when int raises ValueError
RECURSIVE int(_)
int(s) ==
    IF s = << >> \/ \E k \in 1..Len(s) : ~IsDecimal(s[k]) THEN {}
    ELSE IF Len(s) = 1 THEN {DigitValue(s[1])}
    ELSE {10 * v + DigitValue(s[Len(s)]) : v \in int(SubSeq(s, 1, Len(s) - 1))}

\* NodeSelector._is_range_format: re.match(r'^\d+-\d+$', part)
_is_range_format(part) ==
    \E k \in 1..Len(part) :
        /\ part[k] = "-"
        /\ k > 1 /\ k < Len(part)
        /\ \A j \in 1..Len(part) : j # k => IsDecimal(part[j])

\* the range read as written, the bounds not put in order
_parse_range_as_written(all_nodes, range_str) ==
    LET parts == split(range_str, "-")
    IN  IF Len(parts) # 2 \/ int(parts[1]) = {} \/ int(parts[2]) = {}
        THEN << >>
        ELSE LET start_id == CHOOSE v \in int(parts[1]) : TRUE
                 end_id   == CHOOSE v \in int(parts[2]) : TRUE
             IN  SelectSeq(all_nodes,
                           LAMBDA node : start_id <= node.id /\ node.id <= end_id)

\* NodeSelector._parse_range; the except branch returns []
_parse_range(all_nodes, range_str) ==
    LET parts == split(range_str, "-")
    IN  IF Len(parts) # 2 \/ int(parts[1]) = {} \/ int(parts[2]) = {}
        THEN << >>
        ELSE LET a == CHOOSE v \in int(parts[1]) : TRUE
                 b == CHOOSE v \in int(parts[2]) : TRUE
                 start_id == IF a > b THEN b ELSE a
                 end_id   == IF a > b THEN a ELSE b
             IN  SelectSeq(all_nodes,
                           LAMBDA node : start_id <= node.id /\ node.id <= end_id)

\* the first node of the list that passes the test, or None
first_node(all_nodes, Test(_)) ==
    LET hits == SelectSeq(all_nodes, Test)
    IN  IF hits = << >> THEN {} ELSE {Head(hits)}

\* NodeSelector._find_single_node: the node, or None; raised when
\* int(identifier) raises ValueError on an identifier that passed isdigit
_find_single_node(all_nodes, identifier) ==
    LET by_id   == IF isdigit(identifier) /\ int(identifier) # {}
                   THEN first_node(all_nodes,
                            LAMBDA node : node.id \in int(identifier))
                   ELSE {}
        by_name == first_node(all_nodes, LAMBDA node : lower(node.name) = identifier)
        by_ip   == first_node(all_nodes, LAMBDA node : node.ip = identifier)
    IN  IF isdigit(identifier) /\ int(identifier) = {}
        THEN [raised |-> TRUE, node |-> {}]
        ELSE IF by_id # {} THEN [raised |-> FALSE, node |-> by_id]
        ELSE IF by_name # {} THEN [raised |-> FALSE, node |-> by_name]
        ELSE [raised |-> FALSE, node |-> by_ip]

\* the keywords of parse_selection
KwAll == << "a", "l", "l" >>
KwAllEnabled == KwAll \o << "-", "e", "n", "a", "b", "l", "e", "d" >>
KwAllDisabled == KwAll \o << "-", "d", "i", "s", "a", "b", "l", "e", "d" >>
KwAllAll == KwAll \o << "-" >> \o KwAll

\* config_manager.get_nodes(enabled_only=True) over the selector's node list
enabled_nodes(all_nodes) == SelectSeq(all_nodes, IsEnabled)

\* [node for node in self.all_nodes if not node.enabled]
disabled_nodes(all_nodes) == SelectSeq(all_nodes, LAMBDA node : ~node.enabled)

\* the keyword test made on the text as typed
keyword_selection_as_typed(all_nodes, selection) ==
    IF selection = KwAll \/ selection = KwAllEnabled
    THEN {enabled_nodes(all_nodes)}
    ELSE IF selection = KwAllDisabled THEN {disabled_nodes(all_nodes)}
    ELSE IF selection = KwAllAll THEN {all_nodes}
    ELSE {}

\* all-disabled answering with every node
keyword_selection_disabled_all(all_nodes, selection) ==
    IF strip(selection) = << >> THEN {enabled_nodes(all_nodes)}
    ELSE LET word == lower(strip(selection))
         IN  IF word = KwAll \/ word = KwAllEnabled
             THEN {enabled_nodes(all_nodes)}
             ELSE IF word = KwAllDisabled \/ word = KwAllAll THEN {all_nodes}
             ELSE {}

\* parse_selection, the forms answered before any token is looked at: the
\* empty or blank expression and the keywords; nothing for any other text
keyword_selection(all_nodes, selection) ==
    IF strip(selection) = << >> THEN {enabled_nodes(all_nodes)}
    ELSE LET word == lower(strip(selection))
         IN  IF word = KwAll \/ word = KwAllEnabled
             THEN {enabled_nodes(all_nodes)}
             ELSE IF word = KwAllDisabled THEN {disabled_nodes(all_nodes)}
             ELSE IF word = KwAllAll THEN {all_nodes}
             ELSE {}

\* parse_selection, the loop over the parts: the per-token results one after
\* the other; an exception of _find_single_node ends the loop
RECURSIVE selected_of(_, _)
selected_of(all_nodes, parts) ==
    IF parts = << >> THEN [raised |-> FALSE, nodes |-> << >>]
    ELSE LET part == strip(Head(parts))
             rest == selected_of(all_nodes, Tail(parts))
             one  == _find_single_node(all_nodes, part)
         IN  IF part = << >> THEN rest
             ELSE IF _is_range_format(part)
             THEN [rest EXCEPT !.nodes = _parse_range(all_nodes, part) \o @]
             ELSE IF one.raised THEN [raised |-> TRUE, nodes |-> << >>]
             ELSE IF one.node = {} THEN rest
             ELSE [rest EXCEPT !.nodes = << CHOOSE n \in one.node : TRUE >> \o @]

\* the loop keeping the last occurrence of a node
RECURSIVE unique_of_last(_, _)
unique_of_last(selected_nodes, seen_ids) ==
    IF selected_nodes = << >> THEN << >>
    ELSE LET node == Head(selected_nodes)
             rest == Tail(selected_nodes)
         IN  IF \E k \in 1..Len(rest) : rest[k].id = node.id
             THEN unique_of_last(rest, seen_ids)
             ELSE << node >> \o unique_of_last(rest, seen_ids)

\* parse_selection, the loop over selected_nodes with seen_ids
RECURSIVE unique_of(_, _)
unique_of(selected_nodes, seen_ids) ==
    IF selected_nodes = << >> THEN << >>
    ELSE LET node == Head(selected_nodes)
         IN  IF node.id \in seen_ids
             THEN unique_of(Tail(selected_nodes), seen_ids)
             ELSE << node >>
                  \o unique_of(Tail(selected_nodes), seen_ids \cup {node.id})

\* NodeSelector.parse_selection: what the call leaves, selected_nodes and the
\* list returned, or raised
parse_selection(all_nodes, selection) ==
    LET keyword == keyword_selection(all_nodes, selection)
        sel     == selected_of(all_nodes, split(lower(strip(selection)), ","))
    IN  IF keyword # {}
        THEN [raised |-> FALSE, keyword |-> TRUE, selected_nodes |-> << >>,
              returned |-> CHOOSE r \in keyword : TRUE]
        ELSE IF sel.raised
        THEN [raised |-> TRUE, keyword |-> FALSE, selected_nodes |-> << >>,
              returned |-> << >>]
        ELSE [raised |-> FALSE, keyword |-> FALSE, selected_nodes |-> sel.nodes,
              returned |-> unique_of(sel.nodes, {})]

\* ------------------------------------------------------------------- state
VARIABLES
    call,            \* "execute_task" or "connect_nodes": the call being made
    task,            \* Task: node_ids, task_type, retry_count, retry_delay
    max_concurrent,  \* execution_config.max_concurrent
    nodes,           \* the resolved target nodes (a sequence of NodeConfig)
    max_workers,     \* width of the ThreadPoolExecutor
    mpc,             \* main thread: "start", "collecting", "returned", "raised"
    w,               \* per submitted unit of work: the worker's state
    collected,       \* futures as_completed has handed out
    results,         \* execute_task's results list
    cresults,        \* connect_nodes' results dict
    connections,     \* NodeManager.connections: node id -> SSHConnection
    sessions,        \* the SSHConnection objects, by object slot
    maplock,         \* NodeManager._lock is held
    op,              \* the thread issuing pool operations
    now,             \* time.time()
    horizon,         \* the last instant of the run
    creds,           \* the credentials configured, as the YAML file, the
                     \* environment and the file system hold them
    selector,        \* NodeSelector: all_nodes and the parse_selection calls
    runner           \* ScriptExecutor: the call being made and its steps

vars == << call, task, max_concurrent, nodes, max_workers, mpc, w, collected,
           results, cresults, connections, sessions, maplock, op, now, horizon, creds,
                    selector, runner >>

Items == DOMAIN w

\* time.time(): a reading is never earlier than the one before; now is the
\* latest reading
Times == now..horizon

\* ------------------------------------------------------------ SSHConnection
\* object slots: one per configured node in the map, one per thread holding
\* a reference to a Session already removed from the map
Slots == 1..(Len(ConfigNodes) + MaxTargets + 1)

FreeSlot == [node |-> 0, client |-> "None", connected |-> FALSE,
             last_activity |-> 0, lock |-> FALSE, auth |-> "unset"]

\* SSHConnection.__init__
NewConnection(node_id, t) ==
    [node |-> node_id, client |-> "None", connected |-> FALSE,
     last_activity |-> t, lock |-> FALSE, auth |-> "unset"]

\* SSHConnection.connect, entry: the lock is taken, self.client is a fresh
\* SSHClient (the previous client object, if any, is no longer referenced) and
\* the credential is resolved; auth is what connect_kwargs then holds
connect_begin(s) ==
    [s EXCEPT !.lock = TRUE, !.client = "new", !.auth = pick_credential(creds)]

\* SSHConnection.connect, handshake succeeded
connect_success(s, t) ==
    [s EXCEPT !.client = "active", !.connected = TRUE, !.last_activity = t,
              !.lock = FALSE]

\* connect's except branch without the close: the half-open handle stays
connect_failure_keeps_handle(s) ==
    [s EXCEPT !.connected = FALSE, !.lock = FALSE]

\* SSHConnection.connect, except branch (missing credentials, handshake or
\* transport error)
connect_failure(s) ==
    [s EXCEPT !.connected = FALSE, !.client = "None", !.lock = FALSE]

\* disconnect closing the handle and leaving the flag
disconnect_keeps_flag(s) == [s EXCEPT !.client = "None"]

\* SSHConnection.disconnect (runs under the Session's lock)
disconnect(s) == [s EXCEPT !.client = "None", !.connected = FALSE]

\* SSHConnection.execute_command, the check made before the lock is taken
not_connected(s) == ~s.connected \/ s.client = "None"

\* SSHConnection.execute_command, the command returned
command_returned(s, t) == [s EXCEPT !.last_activity = t, !.lock = FALSE]

\* a command that raised counted as activity
command_raised_refreshes(s) ==
    [s EXCEPT !.lock = FALSE, !.last_activity = @ + 1]

\* the primitive raised and the lock stays taken
command_raised_keeps_lock(s) == s

\* SSHConnection.execute_command, the primitive raised: the lock is released
command_raised(s) == [s EXCEPT !.lock = FALSE]

\* execute_command without the lock
can_execute_unlocked(s) == TRUE

\* with self._lock: in connect, in disconnect and in execute_command
can_connect(s) == ~s.lock

can_disconnect(s) == ~s.lock

can_execute(s) == ~s.lock

\* SSHConnection.is_alive, the first test: not self.connected or not
\* self.client returns False
is_alive_check(s) == s.connected /\ s.client # "None"

\* is_alive without its except clause: the fault of the probe goes to the
\* caller
is_alive_probe_no_except(s) ==
    IF s.client = "None" THEN "raised"
    ELSE IF s.client = "active" THEN "True"
    ELSE "False"

\* SSHConnection.is_alive, the try block: self.client.get_transport() and
\* transport.is_active().  No lock is held: with self.client set to None since
\* the first test the call faults with AttributeError, which the bare except
\* swallows; a client not yet connected has no transport; False is returned
\* in every case but that of an active transport
is_alive_probe(s) ==
    IF s.client = "None" THEN "False"
    ELSE IF s.client = "active" THEN "True"
    ELSE "False"

\* objects some thread or the map still refers to; the others are garbage
Referenced(conns, ws, o) ==
    {conns[n] : n \in DOMAIN conns} \cup {ws[i].conn : i \in DOMAIN ws}
        \cup {o.conn}

Reclaim(sess, conns, ws, o) ==
    [k \in Slots |-> IF k \in Referenced(conns, ws, o) THEN sess[k] ELSE FreeSlot]

FreshSlot(conns, ws, o) ==
    CHOOSE k \in Slots \ Referenced(conns, ws, o) :
        \A j \in Slots \ Referenced(conns, ws, o) : k <= j

\* --------------------------------------------------------------- TaskResult
\* TaskResult as execute_task_on_node first builds it
NewResult(node_id) ==
    [node_id |-> node_id, success |-> FALSE, exit_code |-> {}, stdout |-> "",
     error_message |-> "", retry_count |-> 0]

\* the error result execute_task builds when future.result() raised
ErrorResult(node_id, msg) ==
    [NewResult(node_id) EXCEPT !.error_message = msg]

NewWorker(node_id) ==
    [node |-> node_id, pc |-> "queued", attempt |-> 0, conn |-> 0,
     result |-> NewResult(node_id), future |-> "pending", value |-> {},
     ok |-> FALSE, error |-> "", made |-> 0, failed |-> 0, refused |-> 0,
     slept |-> 0,
     outcome |-> "none", command |-> << >>]

\* what the run records of an attempt that ended: how it ended (the last
\* connect or command of the attempt), how many attempts did not exit 0 and
\* how many ended on a connect that failed
Ended(wr, outcome) ==
    [wr EXCEPT !.outcome = outcome,
               !.failed = @ + (IF outcome = "exit0" THEN 0 ELSE 1),
               !.refused = @ + (IF outcome = "connect_failed" THEN 1 ELSE 0)]

\* no unit of work of the call is running or still to run
Quiet == mpc # "start" /\ \A i \in Items : w[i].pc = "done"

\* the thread issuing pool operations, between two operations; alone records
\* that the operation under way began with no unit of work left to run
IdleOp(left) ==
    [pc |-> "idle", kind |-> "none", node |-> 0, work |-> {}, cur |-> 0,
     remove |-> {}, conn |-> 0, time |-> 0, timeout |-> 0, alone |-> FALSE,
     left |-> left]

\* -------------------------------------------------------------------- Init
\* the state before the call: the inputs of the call, the number of pool
\* operations the other thread will issue, and how long the clock runs
\* no NodeSelector call and no ScriptExecutor call is being made
NoSelector == [all_nodes |-> << >>, typed |-> "none", left |-> 0, parses |-> {}]
NoRunner == [call |-> "none"]

InitOf(calls, ids, types, retries, delays, ceilings, budget, last, cs, xs) ==
    /\ creds \in cs
    /\ selector = NoSelector
    /\ runner = NoRunner
    /\ call \in calls
    /\ task \in [node_ids : ids,
                 command : {"arg"},
                 extra_params : xs,
                 task_type : IF call = "execute_task" THEN types
                             ELSE {"shell_command"},
                 retry_count : IF call = "execute_task" THEN retries ELSE {0},
                 retry_delay : IF call = "execute_task" THEN delays ELSE {0}]
    /\ max_concurrent \in ceilings
    /\ nodes = << >>
    /\ max_workers = 0
    /\ mpc = "start"
    /\ w = << >>
    /\ collected = {}
    /\ results = << >>
    /\ cresults = << >>
    /\ connections = << >>
    /\ sessions = [k \in Slots |-> FreeSlot]
    /\ maplock = FALSE
    /\ op = IdleOp(budget)
    /\ now = 0
    /\ horizon = last

Calls == {"execute_task", "connect_nodes"}

\* execution.max_concurrent: below and at the number of targets
Ceilings == {1, 2}

\* task.retry_count of the dispatcher's runs: no attempt, one, two
DispatchRetries == {0 - 1, 0, 1}

\* one node, every kind of task and every combination of credentials
InitNode ==
    \/ InitOf(Calls, {<< 1 >>}, {"shell_command"}, {MaxRetry}, {5}, {1}, 0, 0,
              Credentials, {NoExtras})
    \/ InitOf({"execute_task"}, {<< 1 >>}, AllTaskTypes, {MaxRetry}, {5}, {1},
              0, 0, {PasswordOnly}, ExtraParams)

\* connect_nodes on no node, on one and on two, with the other thread issuing
\* one pool operation after another while the clock runs
OpsTargets == {<< >>, << 1 >>, << 1, 2 >>}

InitOps ==
    InitOf({"connect_nodes"}, OpsTargets, {"shell_command"}, {0}, {0},
           {Len(ConfigNodes)}, MaxOps + 1, MaxTime, {PasswordOnly}, {NoExtras})

\* the whole engine with the clock running: calls on at most one target
Init ==
    InitOf(Calls, SeqsUpTo(IdUniverse, 1), {"shell_command"}, (0 - 1)..MaxRetry,
           RetryDelays, {1}, MaxOps, MaxTime, {PasswordOnly}, {NoExtras})

\* the pool under contention: two workers on one node or on two, and the
\* thread issuing pool operations
PoolTargets == {<< 1 >>, << 1, 1 >>, << 1, 2 >>}

InitPool ==
    InitOf(Calls, PoolTargets, TaskTypes, {0}, {5}, {Len(ConfigNodes)},
           MaxOps, 0, {PasswordOnly}, {NoExtras})

\* the dispatcher: every list of target ids, retry count, delay and ceiling
InitDispatch ==
    InitOf(Calls, SeqsUpTo(IdUniverse, MaxTargets), {"shell_command"},
           DispatchRetries, RetryDelays, Ceilings, 0, 0, {PasswordOnly}, {NoExtras})

\* ------------------------------------------------------------- main thread
\* target resolution passing over the listed nodes that are disabled
resolve_targets_enabled_only(t) ==
    IF t.node_ids = << >> THEN get_nodes(TRUE)
    ELSE SelectSeq(get_nodes_by_ids(t.node_ids), IsEnabled)

\* execute_task, the target list: the listed nodes, or every enabled node
resolve_targets(t) ==
    IF t.node_ids = << >> THEN get_nodes(TRUE) ELSE get_nodes_by_ids(t.node_ids)

\* a pool as wide as the target list
pool_width_unbounded(n, ceiling) == n

\* the width of the pool
pool_width(n, ceiling) == Min(n, ceiling)

\* execute_task up to the submission of every unit of work; connect_nodes is
\* handed the nodes themselves
Submit ==
    /\ mpc = "start"
    /\ LET ns == IF call = "execute_task" THEN resolve_targets(task)
                 ELSE get_nodes_by_ids(task.node_ids)
       IN  /\ nodes' = ns
           /\ IF ns = << >>
              THEN \* execute_task returns []; connect_nodes asks for a pool
                   \* of width 0, which ThreadPoolExecutor refuses (ValueError)
                   /\ mpc' = IF call = "execute_task" THEN "returned"
                             ELSE "raised"
                   /\ UNCHANGED << max_workers, w >>
              ELSE /\ mpc' = "collecting"
                   /\ max_workers' = pool_width(Len(ns), max_concurrent)
                   /\ w' = [i \in 1..Len(ns) |-> NewWorker(ns[i].id)]
    /\ UNCHANGED << call, task, max_concurrent, collected, results, cresults,
                    connections, sessions, maplock, op, now, horizon, creds,
                    selector, runner >>

\* --------------------------------------------------------- worker threads
Running == {i \in Items : w[i].pc \notin {"queued", "done"}}

\* get_connection without the membership test: a new Session on every call
get_connection_replace(conns, node_id, fresh) ==
    (node_id :> fresh) @@ [n \in DOMAIN conns \ {node_id} |-> conns[n]]

\* NodeManager.get_connection: the map after the call; the Session returned
\* is the one the map then holds for the node
get_connection(conns, node_id, fresh) ==
    IF node_id \notin DOMAIN conns THEN (node_id :> fresh) @@ conns ELSE conns

\* the retry loop stopping one attempt early
end_attempt_one_short(wr, res) ==
    LET r == [res EXCEPT !.retry_count = wr.attempt]
    IN  IF r.success \/ ~(wr.attempt + 1 < task.retry_count)
        THEN [wr EXCEPT !.pc = "done", !.future = "result", !.value = {r},
                        !.result = r, !.conn = 0]
        ELSE IF task.retry_delay < 0
        THEN [wr EXCEPT !.pc = "done", !.future = "exception",
                        !.error = "sleep length must be non-negative",
                        !.result = r, !.conn = 0]
        ELSE [wr EXCEPT !.pc = "sleeping", !.result = r, !.conn = 0]

\* the retry loop without the return on success
end_attempt_no_early_return(wr, res) ==
    LET r == [res EXCEPT !.retry_count = wr.attempt]
    IN  IF ~(wr.attempt < task.retry_count)
        THEN [wr EXCEPT !.pc = "done", !.future = "result", !.value = {r},
                        !.result = r, !.conn = 0]
        ELSE IF task.retry_delay < 0
        THEN [wr EXCEPT !.pc = "done", !.future = "exception",
                        !.error = "sleep length must be non-negative",
                        !.result = r, !.conn = 0]
        ELSE [wr EXCEPT !.pc = "sleeping", !.result = r, !.conn = 0]

\* the retry loop going to the next attempt without the sleep
end_attempt_no_sleep(wr, res) ==
    LET r == [res EXCEPT !.retry_count = wr.attempt]
    IN  IF r.success \/ ~(wr.attempt < task.retry_count)
        THEN [wr EXCEPT !.pc = "done", !.future = "result", !.value = {r},
                        !.result = r, !.conn = 0]
        ELSE [wr EXCEPT !.pc = "get_conn", !.attempt = @ + 1, !.result = r,
                        !.conn = 0]

\* execute_task_with_retry, the end of one attempt: the result gets the
\* attempt's number; a success or the last attempt completes the future, any
\* other attempt is followed by time.sleep(task.retry_delay)
end_attempt(wr, res) ==
    LET r == [res EXCEPT !.retry_count = wr.attempt]
    IN  IF r.success \/ ~(wr.attempt < task.retry_count)
        THEN [wr EXCEPT !.pc = "done", !.future = "result", !.value = {r},
                        !.result = r, !.conn = 0]
        ELSE IF task.retry_delay < 0
        THEN [wr EXCEPT !.pc = "done", !.future = "exception",
                        !.error = "sleep length must be non-negative",
                        !.result = r, !.conn = 0]
        ELSE [wr EXCEPT !.pc = "sleeping", !.result = r, !.conn = 0]

\* the except branch dropping the error's text
attempt_raised_silent(wr, msg) == end_attempt(wr, wr.result)

\* execute_task_on_node, the except branch: the error is kept in the result
attempt_raised(wr, msg) ==
    end_attempt(wr, [wr.result EXCEPT !.error_message = msg])

\* execute_task_on_node, the branch on task.task_type once the Session is
\* usable
dispatch(wr) ==
    IF task.task_type \in SupportedTypes
    THEN [wr EXCEPT !.pc = "exec_check", !.command = render_command(task)]
    ELSE attempt_raised(Ended(wr, "unsupported"), "unsupported task type")

\* a pool thread takes the next unit of work off the queue; with
\* range(retry_count + 1) empty execute_task_with_retry returns None at once
Start(i) ==
    /\ mpc = "collecting"
    /\ w[i].pc = "queued"
    /\ \A j \in Items : j < i => w[j].pc # "queued"
    /\ Cardinality(Running) < max_workers
    /\ w' = [w EXCEPT ![i] =
                IF call = "execute_task" /\ task.retry_count + 1 <= 0
                THEN [@ EXCEPT !.pc = "done", !.future = "result", !.value = {}]
                ELSE [@ EXCEPT !.pc = "get_conn"]]
    /\ UNCHANGED << call, task, max_concurrent, nodes, max_workers, mpc,
                    collected, results, cresults, connections, sessions,
                    maplock, op, now, horizon, creds,
                    selector, runner >>

\* execute_task_on_node / connect_node: node_manager.get_connection(node)
GetConnection(i) ==
    /\ w[i].pc = "get_conn"
    /\ ~maplock
    /\ \E t \in Times :
       /\ w[i].node \in DOMAIN connections => t = now
       /\ now' = t
       /\ LET fresh == FreshSlot(connections, w, op)
           conns == get_connection(connections, w[i].node, fresh)
           sess  == IF w[i].node \in DOMAIN connections THEN sessions
                    ELSE [sessions EXCEPT ![fresh] = NewConnection(w[i].node, t)]
           ws    == [w EXCEPT ![i] =
                        [@ EXCEPT !.conn = conns[w[i].node],
                                  !.made = @ + 1,
                                  !.outcome = "none",
                                  !.result = NewResult(w[i].node),
                                  !.pc = IF call = "execute_task"
                                         THEN "is_alive" ELSE "connect"]]
         IN  /\ connections' = conns
             /\ w' = ws
             /\ sessions' = Reclaim(sess, conns, ws, op)
    /\ UNCHANGED << call, task, max_concurrent, nodes, max_workers, mpc,
                    collected, results, cresults, maplock, op, horizon, creds,
                    selector, runner >>

\* execute_task_on_node, if not connection.is_alive(): the first test of
\* is_alive; when it fails is_alive returns False and connect() is called
IsAlive(i) ==
    /\ w[i].pc = "is_alive"
    /\ w' = [w EXCEPT ![i].pc = IF is_alive_check(sessions[w[i].conn])
                                THEN "alive_probe" ELSE "connect"]
    /\ UNCHANGED << call, task, max_concurrent, nodes, max_workers, mpc,
                    collected, results, cresults, connections, sessions,
                    maplock, op, now, horizon, creds,
                    selector, runner >>

\* is_alive, the probe of the transport and the return; outcome keeps how the
\* call ended: "alive" for True, "probe_error" for a fault swallowed on the
\* way to False
IsAliveProbe(i) ==
    /\ w[i].pc = "alive_probe"
    /\ LET s  == sessions[w[i].conn]
           r  == is_alive_probe(s)
           ws == [w EXCEPT ![i] =
                     IF r = "True"
                     THEN dispatch([@ EXCEPT !.outcome = "alive"])
                     ELSE IF r = "raised"
                     THEN attempt_raised(Ended(@, "probe_raised"),
                                         "AttributeError")
                     ELSE [@ EXCEPT !.pc = "connect",
                                    !.outcome = IF s.client = "None"
                                                THEN "probe_error" ELSE @]]
       IN  /\ w' = ws
           /\ sessions' = Reclaim(sessions, connections, ws, op)
    /\ UNCHANGED << call, task, max_concurrent, nodes, max_workers, mpc,
                    collected, results, cresults, connections, maplock, op, now, horizon, creds,
                    selector, runner >>

\* SSHConnection.connect takes the Session's lock and builds the client
ConnectBegin(i) ==
    /\ w[i].pc = "connect"
    /\ can_connect(sessions[w[i].conn])
    /\ sessions' = [sessions EXCEPT ![w[i].conn] = connect_begin(@)]
    /\ w' = [w EXCEPT ![i].pc = "connecting"]
    /\ UNCHANGED << call, task, max_concurrent, nodes, max_workers, mpc,
                    collected, results, cresults, connections, maplock, op, now, horizon, creds,
                    selector, runner >>

ConnectOutcomes == {"ok", "no_credentials", "handshake_error"}

\* connect raises ValueError exactly when no credential was resolved;
\* self.client.connect returns or raises
connect_outcomes(s) ==
    IF s.auth = "none" THEN {"no_credentials"} ELSE {"ok", "handshake_error"}

\* SSHConnection.connect returns; execute_task_on_node raises when it returned
\* False, connect_node hands the boolean on
ConnectFinish(i) ==
    /\ w[i].pc = "connecting"
    /\ \E outcome \in ConnectOutcomes, t \in Times :
        /\ outcome \in connect_outcomes(sessions[w[i].conn])
        /\ outcome # "ok" => t = now
        /\ now' = t
        /\ LET c == w[i].conn
            sess == [sessions EXCEPT ![c] = IF outcome = "ok"
                                            THEN connect_success(@, t)
                                            ELSE connect_failure(@)]
            wr   == IF outcome = "ok" THEN [w[i] EXCEPT !.outcome = "connected"]
                    ELSE IF call = "connect_nodes"
                    THEN [w[i] EXCEPT !.outcome = "connect_failed"]
                    ELSE Ended(w[i], "connect_failed")
            ws   == [w EXCEPT ![i] =
                        IF call = "connect_nodes"
                        THEN [wr EXCEPT !.pc = "done", !.future = "result",
                                        !.ok = (outcome = "ok"), !.conn = 0]
                        ELSE IF outcome = "ok" THEN dispatch(wr)
                        ELSE attempt_raised(wr, "cannot connect")]
           IN  /\ w' = ws
               /\ sessions' = Reclaim(sess, connections, ws, op)
    /\ UNCHANGED << call, task, max_concurrent, nodes, max_workers, mpc,
                    collected, results, cresults, connections, maplock, op, horizon, creds,
                    selector, runner >>

\* SSHConnection.execute_command: the check of connected and client, made
\* before the lock is taken
ExecCheck(i) ==
    /\ w[i].pc = "exec_check"
    /\ LET ws == [w EXCEPT ![i] = IF not_connected(sessions[w[i].conn])
                                   THEN attempt_raised(Ended(@, "not_connected"),
                                                       "not connected")
                                   ELSE [@ EXCEPT !.pc = "exec_lock"]]
       IN  /\ w' = ws
           /\ sessions' = Reclaim(sessions, connections, ws, op)
    /\ UNCHANGED << call, task, max_concurrent, nodes, max_workers, mpc,
                    collected, results, cresults, connections, maplock, op, now, horizon, creds,
                    selector, runner >>

\* SSHConnection.execute_command: the lock is taken and self.client.exec_command
\* is called; with self.client None by now the call raises AttributeError
ExecIssue(i) ==
    /\ w[i].pc = "exec_lock"
    /\ can_execute(sessions[w[i].conn])
    /\ LET c  == w[i].conn
           ws == [w EXCEPT ![i] = IF sessions[c].client = "None"
                                   THEN attempt_raised(Ended(@, "no_handle"),
                                                       "AttributeError")
                                   ELSE [@ EXCEPT !.pc = "exec_inflight"]]
           sess == IF sessions[c].client = "None" THEN sessions
                   ELSE [sessions EXCEPT ![c].lock = TRUE]
       IN  /\ w' = ws
           /\ sessions' = Reclaim(sess, connections, ws, op)
    /\ UNCHANGED << call, task, max_concurrent, nodes, max_workers, mpc,
                    collected, results, cresults, connections, maplock, op, now, horizon, creds,
                    selector, runner >>

CommandOutcomes == {"exit0", "nonzero", "raised"}

\* execute_task_on_node: the result of a command that returned
command_result(res, code) ==
    [res EXCEPT !.exit_code = {code}, !.stdout = "output",
                !.success = (code = 0)]

\* the remote command ends: it returns an exit status, or raises (transport
\* error, timeout); on a handle whose transport is gone it can only raise
ExecReturn(i) ==
    /\ w[i].pc = "exec_inflight"
    /\ \E outcome \in CommandOutcomes, t \in Times :
        /\ sessions[w[i].conn].client # "active" => outcome = "raised"
        /\ outcome = "raised" => t = now
        /\ now' = t
        /\ LET c    == w[i].conn
               wr   == Ended(w[i], outcome)
               sess == [sessions EXCEPT ![c] = IF outcome = "raised"
                                               THEN command_raised(@)
                                               ELSE command_returned(@, t)]
               ws   == [w EXCEPT ![i] =
                           IF outcome = "raised"
                           THEN attempt_raised(wr, "transport error")
                           ELSE end_attempt(wr, command_result(wr.result,
                                    IF outcome = "exit0" THEN 0 ELSE 1))]
           IN  /\ w' = ws
               /\ sessions' = Reclaim(sess, connections, ws, op)
    /\ UNCHANGED << call, task, max_concurrent, nodes, max_workers, mpc,
                    collected, results, cresults, connections, maplock, op, horizon, creds,
                    selector, runner >>

\* time.sleep(task.retry_delay) is over: the next attempt
Wake(i) ==
    /\ w[i].pc = "sleeping"
    /\ w' = [w EXCEPT ![i] = [@ EXCEPT !.pc = "get_conn", !.attempt = @ + 1,
                                       !.slept = @ + 1]]
    /\ UNCHANGED << call, task, max_concurrent, nodes, max_workers, mpc,
                    collected, results, cresults, connections, sessions,
                    maplock, op, now, horizon, creds,
                    selector, runner >>

\* ---------------------------------------------------- collecting the results
\* the as_completed loop without its except branch: a future that raised
\* leaves no result
collect_result_no_except(res, wr) ==
    IF wr.future = "exception"
    THEN res
    ELSE IF wr.value = {}
    THEN Append(res, {})
    ELSE Append(res, wr.value)

\* the as_completed loop giving up the batch at the first failed node: what
\* was collected so far is dropped
collect_result_abort(res, wr) ==
    IF wr.future = "exception"
    THEN << {ErrorResult(wr.node, wr.error)} >>
    ELSE IF wr.value = {}
    THEN << {} >>
    ELSE IF \E r \in wr.value : ~r.success
    THEN << wr.value >>
    ELSE Append(res, wr.value)

\* execute_task, one round of the as_completed loop: a result is appended; a
\* None result is appended and then faults on result.success, and a raised
\* future faults on future.result(): both add the error result
collect_result(res, wr) ==
    IF wr.future = "exception"
    THEN Append(res, {ErrorResult(wr.node, wr.error)})
    ELSE IF wr.value = {}
    THEN Append(Append(res, {}),
                {ErrorResult(wr.node, "'NoneType' object has no attribute 'success'")})
    ELSE Append(res, wr.value)

Collect(i) ==
    /\ mpc = "collecting"
    /\ w[i].pc = "done"
    /\ i \notin collected
    /\ collected' = collected \cup {i}
    /\ IF call = "execute_task"
       THEN /\ results' = collect_result(results, w[i])
            /\ UNCHANGED cresults
       ELSE /\ cresults' = (w[i].node :> w[i].ok) @@ cresults
            /\ UNCHANGED results
    /\ UNCHANGED << call, task, max_concurrent, nodes, max_workers, mpc, w,
                    connections, sessions, maplock, op, now, horizon, creds,
                    selector, runner >>

\* the as_completed loop ends once every future was handed out
exhausted(handed, futures) == handed = futures

\* execute_task's success count, sum(1 for r in results if r.success): reading
\* .success of a None entry raises AttributeError
count_raises(res) == \E k \in 1..Len(res) : res[k] = {}

\* as_completed is exhausted and the pool is shut down: connect_nodes returns
\* its map; execute_task counts the successes and returns the list, or raises
\* out of the count
Return ==
    /\ mpc = "collecting"
    /\ exhausted(collected, Items)
    /\ mpc' = IF call = "execute_task" /\ count_raises(results)
              THEN "raised"
              ELSE "returned"
    /\ UNCHANGED << call, task, max_concurrent, nodes, max_workers, w, collected,
                    results, cresults, connections, sessions, maplock, op, now, horizon, creds,
                    selector, runner >>

\* --------------------------------------------------------- pool operations
\* idle_timeout values cleanup_idle_connections is called with
IdleTimeouts == 0..(MaxTime - 1)

\* idle from the timeout on, not after it
is_idle_inclusive(s, current_time, idle_timeout) ==
    current_time - s.last_activity >= idle_timeout

\* cleanup_idle_connections: the Session counts as idle
is_idle(s, current_time, idle_timeout) ==
    current_time - s.last_activity > idle_timeout

\* the keys an operation walks over once it holds the map lock
op_targets(kind, node_id, conns) ==
    IF kind = "disconnect_node"
    THEN (IF node_id \in DOMAIN conns THEN {node_id} ELSE {})
    ELSE DOMAIN conns

\* the map when the operation releases the map lock: disconnect_node and
\* cleanup_idle_connections delete the keys they disconnected, disconnect_all
\* clears the map
op_remove(kind, conns, removed) ==
    IF kind = "disconnect_all" THEN << >>
    ELSE [n \in DOMAIN conns \ removed |-> conns[n]]

\* disconnect_node, disconnect_all or cleanup_idle_connections is called and
\* takes the map lock (cleanup_idle_connections has read the clock)
OpLock ==
    /\ op.pc = "idle"
    /\ op.left > 0
    /\ ~maplock
    /\ \E kind \in {"disconnect_node", "disconnect_all", "cleanup"},
          n \in IdUniverse, idle_timeout \in IdleTimeouts, t \in Times :
        /\ kind # "disconnect_node" => n = 1
        /\ kind # "cleanup" => idle_timeout = 0 /\ t = now
        /\ now' = t
        /\ op' = [op EXCEPT !.pc = "locked", !.kind = kind,
                            !.node = IF kind = "disconnect_node" THEN n ELSE 0,
                            !.work = op_targets(kind, n, connections),
                            !.time = IF kind = "cleanup" THEN t ELSE 0,
                            !.timeout = idle_timeout,
                            !.alone = Quiet,
                            !.left = @ - 1]
    /\ maplock' = TRUE
    /\ UNCHANGED << call, task, max_concurrent, nodes, max_workers, mpc, w,
                    collected, results, cresults, connections, sessions, horizon, creds,
                    selector, runner >>

\* the loop reaches a Session: cleanup_idle_connections passes over one that
\* is not idle, every other one is to be disconnected
OpPick(n) ==
    /\ op.pc = "locked"
    /\ op.cur = 0
    /\ n \in op.work
    /\ op' = [op EXCEPT !.work = @ \ {n},
                        !.cur = IF op.kind = "cleanup"
                                   /\ ~is_idle(sessions[connections[n]],
                                               op.time, op.timeout)
                                THEN 0 ELSE n]
    /\ UNCHANGED << call, task, max_concurrent, nodes, max_workers, mpc, w,
                    collected, results, cresults, connections, sessions,
                    maplock, now, horizon, creds,
                    selector, runner >>

\* connection.disconnect() gets the Session's lock and closes the handle
OpDisconnect ==
    /\ op.pc = "locked"
    /\ op.cur # 0
    /\ can_disconnect(sessions[connections[op.cur]])
    /\ sessions' = [sessions EXCEPT ![connections[op.cur]] = disconnect(@)]
    /\ op' = [op EXCEPT !.cur = 0, !.remove = @ \cup {op.cur}]
    /\ UNCHANGED << call, task, max_concurrent, nodes, max_workers, mpc, w,
                    collected, results, cresults, connections, maplock, now, horizon, creds,
                    selector, runner >>

\* the keys are deleted and the map lock is released
OpUnlock ==
    /\ op.pc = "locked"
    /\ op.cur = 0
    /\ op.work = {}
    /\ LET conns == op_remove(op.kind, connections, op.remove)
           o     == IdleOp(op.left)
       IN  /\ connections' = conns
           /\ op' = o
           /\ sessions' = Reclaim(sessions, conns, w, o)
    /\ maplock' = FALSE
    /\ UNCHANGED << call, task, max_concurrent, nodes, max_workers, mpc, w,
                    collected, results, cresults, now, horizon, creds,
                    selector, runner >>

\* NodeManager.connect_node(node): get_connection
OpGetConnection(n) ==
    /\ op.pc = "idle"
    /\ op.left > 0
    /\ ~maplock
    /\ \E t \in Times :
       /\ n \in DOMAIN connections => t = now
       /\ now' = t
       /\ LET fresh == FreshSlot(connections, w, op)
           conns == get_connection(connections, n, fresh)
           sess  == IF n \in DOMAIN connections THEN sessions
                    ELSE [sessions EXCEPT ![fresh] = NewConnection(n, t)]
         IN  /\ connections' = conns
             /\ sessions' = sess
             /\ op' = [op EXCEPT !.pc = "connect", !.kind = "connect_node",
                                 !.node = n, !.conn = conns[n], !.left = @ - 1]
    /\ UNCHANGED << call, task, max_concurrent, nodes, max_workers, mpc, w,
                    collected, results, cresults, maplock, horizon, creds,
                    selector, runner >>

\* NodeManager.connect_node: connection.connect() takes the Session's lock
OpConnectBegin ==
    /\ op.pc = "connect"
    /\ can_connect(sessions[op.conn])
    /\ sessions' = [sessions EXCEPT ![op.conn] = connect_begin(@)]
    /\ op' = [op EXCEPT !.pc = "connecting"]
    /\ UNCHANGED << call, task, max_concurrent, nodes, max_workers, mpc, w,
                    collected, results, cresults, connections, maplock, now, horizon, creds,
                    selector, runner >>

\* NodeManager.connect_node: connection.connect() returns
OpConnectFinish ==
    /\ op.pc = "connecting"
    /\ \E outcome \in ConnectOutcomes, t \in Times :
        /\ outcome \in connect_outcomes(sessions[op.conn])
        /\ outcome # "ok" => t = now
        /\ now' = t
        /\ LET sess == [sessions EXCEPT ![op.conn] = IF outcome = "ok"
                                                  THEN connect_success(@, t)
                                                  ELSE connect_failure(@)]
               o    == IdleOp(op.left)
           IN  /\ op' = o
               /\ sessions' = Reclaim(sess, connections, w, o)
    /\ UNCHANGED << call, task, max_concurrent, nodes, max_workers, mpc, w,
                    collected, results, cresults, connections, maplock, horizon, creds,
                    selector, runner >>

\* ------------------------------------------------------------- environment
\* the peer or the network drops the transport of an open handle
TransportDrop(k) ==
    /\ sessions[k].client = "active"
    /\ sessions' = [sessions EXCEPT ![k].client = "dropped"]
    /\ UNCHANGED << call, task, max_concurrent, nodes, max_workers, mpc, w,
                    collected, results, cresults, connections, maplock, op, now, horizon, creds,
                    selector, runner >>

\* the dispatcher: the main thread, the pool's threads, the transports
NextDispatch ==
    \/ Submit
    \/ \E i \in Items : Start(i)
    \/ \E i \in Items : GetConnection(i)
    \/ \E i \in Items : IsAlive(i)
    \/ \E i \in Items : IsAliveProbe(i)
    \/ \E i \in Items : ConnectBegin(i)
    \/ \E i \in Items : ConnectFinish(i)
    \/ \E i \in Items : ExecCheck(i)
    \/ \E i \in Items : ExecIssue(i)
    \/ \E i \in Items : ExecReturn(i)
    \/ \E i \in Items : Wake(i)
    \/ \E i \in Items : Collect(i)
    \/ Return
    \/ \E k \in Slots : TransportDrop(k)

\* the pool under contention: the tasks carry no retry, the other thread
\* issues pool operations
NextPool ==
    \/ Submit
    \/ \E i \in Items : Start(i)
    \/ \E i \in Items : GetConnection(i)
    \/ \E i \in Items : IsAlive(i)
    \/ \E i \in Items : IsAliveProbe(i)
    \/ \E i \in Items : ConnectBegin(i)
    \/ \E i \in Items : ConnectFinish(i)
    \/ \E i \in Items : ExecCheck(i)
    \/ \E i \in Items : ExecIssue(i)
    \/ \E i \in Items : ExecReturn(i)
    \/ \E i \in Items : Collect(i)
    \/ Return
    \/ OpLock
    \/ \E n \in NodeIds : OpPick(n)
    \/ OpDisconnect
    \/ OpUnlock
    \/ \E n \in NodeIds : OpGetConnection(n)
    \/ OpConnectBegin
    \/ OpConnectFinish
    \/ \E k \in Slots : TransportDrop(k)

\* connect_nodes and the pool operations
NextOps ==
    \/ Submit
    \/ \E i \in Items : Start(i)
    \/ \E i \in Items : GetConnection(i)
    \/ \E i \in Items : ConnectBegin(i)
    \/ \E i \in Items : ConnectFinish(i)
    \/ \E i \in Items : Collect(i)
    \/ Return
    \/ OpLock
    \/ \E n \in NodeIds : OpPick(n)
    \/ OpDisconnect
    \/ OpUnlock
    \/ \E n \in NodeIds : OpGetConnection(n)
    \/ OpConnectBegin
    \/ OpConnectFinish
    \/ \E k \in Slots : TransportDrop(k)

Next ==
    \/ Submit
    \/ \E i \in Items : Start(i)
    \/ \E i \in Items : GetConnection(i)
    \/ \E i \in Items : IsAlive(i)
    \/ \E i \in Items : IsAliveProbe(i)
    \/ \E i \in Items : ConnectBegin(i)
    \/ \E i \in Items : ConnectFinish(i)
    \/ \E i \in Items : ExecCheck(i)
    \/ \E i \in Items : ExecIssue(i)
    \/ \E i \in Items : ExecReturn(i)
    \/ \E i \in Items : Wake(i)
    \/ \E i \in Items : Collect(i)
    \/ Return
    \/ OpLock
    \/ \E n \in NodeIds : OpPick(n)
    \/ OpDisconnect
    \/ OpUnlock
    \/ \E n \in NodeIds : OpGetConnection(n)
    \/ OpConnectBegin
    \/ OpConnectFinish
    \/ \E k \in Slots : TransportDrop(k)

Spec == Init /\ [][Next]_vars

SpecPool == InitPool /\ [][NextPool]_vars

SpecDispatch == InitDispatch /\ [][NextDispatch]_vars

SpecNode == InitNode /\ [][NextDispatch]_vars

SpecOps == InitOps /\ [][NextOps]_vars

\* fair scheduling of the main thread and of the pool's threads; every connect
\* and every command returns or times out, every sleep ends
MainStep == Submit \/ (\E i \in Items : Collect(i)) \/ Return

Worker(i) ==
    /\ i \in Items
    /\ \/ Start(i)
       \/ GetConnection(i)
       \/ IsAlive(i)
       \/ IsAliveProbe(i)
       \/ ConnectBegin(i)
       \/ ConnectFinish(i)
       \/ ExecCheck(i)
       \/ ExecIssue(i)
       \/ ExecReturn(i)
       \/ Wake(i)

SpecDispatchFair ==
    /\ SpecDispatch
    /\ WF_vars(MainStep)
    /\ \A i \in 1..MaxTargets : WF_vars(Worker(i))

\* ------------------------------------------------------------------ claims
Entry(k) == CHOOSE r \in results[k] : TRUE

\* the places of the results list holding a TaskResult of node n
ResultsOf(n) == {k \in 1..Len(results) : results[k] # {} /\ Entry(k).node_id = n}

\* the places of the resolved target list holding node n
TargetsOf(n) == {k \in 1..Len(nodes) : nodes[k].id = n}

Returned == call = "execute_task" /\ mpc = "returned"

Distinct(seq) ==
    \A j, k \in 1..Len(seq) : j # k => seq[j].id # seq[k].id

\* C1, as stated: execute_task returns exactly as many results as the task's
\* id list has entries, and every listed id has exactly one result.
C1_OneResultPerListedId ==
    Returned =>
        /\ Len(results) = Len(task.node_ids)
        /\ \A k \in 1..Len(task.node_ids) :
               Cardinality(ResultsOf(task.node_ids[k])) = 1

\* C1, amended: every list execute_task returns holds exactly one TaskResult
\* for each entry of the resolved target list (the configured nodes the id
\* list names, in order and as often as it names them; the enabled nodes when
\* the list is empty), none for any other id and nothing else, so its length
\* is the number of resolved targets.
C1_OneResultPerResolvedNode ==
    Returned =>
        /\ \A n \in IdUniverse :
               Cardinality(ResultsOf(n)) = Cardinality(TargetsOf(n))
        /\ \A k \in 1..Len(results) : results[k] # {}
        /\ Len(results) = Len(nodes)

\* two targets whose every connect attempt failed, retries included
C1_AllConnectsFail ==
    /\ Returned
    /\ Len(nodes) >= 2
    /\ Len(results) = Len(nodes)
    /\ \A i \in Items : w[i].outcome = "connect_failed" /\ w[i].made >= 2

\* C2: with distinct target ids, when the call has returned every unit of work
\* has completed, and a node whose last attempt connected and exited 0 has a
\* result, which is a success with exit code 0, whatever the other nodes did.
C2_FailureIsolation ==
    (Returned /\ Distinct(nodes)) =>
        \A i \in Items :
            /\ w[i].pc = "done"
            /\ w[i].outcome = "exit0" =>
                  /\ ResultsOf(w[i].node) # {}
                  /\ \A k \in ResultsOf(w[i].node) :
                         Entry(k).success /\ Entry(k).exit_code = {0}

\* one node succeeded after the other had failed every attempt and its failure
\* had been collected
C2_SuccessBesideFailure ==
    /\ Returned
    /\ Distinct(nodes)
    /\ \E i, j \in Items :
          /\ w[i].outcome = "exit0"
          /\ w[j].outcome \in {"connect_failed", "nonzero", "raised"}
          /\ w[j].made >= 2
          /\ ResultsOf(w[j].node) # {}
          /\ \A k \in ResultsOf(w[j].node), l \in ResultsOf(w[i].node) : k < l

\* the node's future is completed and no attempt on it exited 0
AlwaysFailed(i) == w[i].pc = "done" /\ w[i].failed = w[i].made

\* what C3 says of the unit of work i: n + 1 attempts and one TaskResult, with
\* retry_count = n and no success, which is the unit's entry of the returned
\* list (a node listed m times has m units of work and m entries)
RetryAccounting(i) ==
    /\ w[i].made = task.retry_count + 1
    /\ w[i].future = "result"
    /\ w[i].value = {w[i].result}
    /\ w[i].result.retry_count = task.retry_count
    /\ ~w[i].result.success
    /\ Returned =>
          /\ Cardinality(ResultsOf(w[i].node)) = Cardinality(TargetsOf(w[i].node))
          /\ \E k \in ResultsOf(w[i].node) : Entry(k) = w[i].result

\* C3, as stated: with retry_count = n >= 0 a node whose every attempt fails
\* gets n + 1 attempts and one TaskResult, with retry_count = n and no success.
C3_RetryAccounting ==
    (call = "execute_task" /\ task.retry_count >= 0) =>
        \A i \in Items : AlwaysFailed(i) => RetryAccounting(i)

\* C3, amended: the same for a task whose retry_delay is not negative.
C3_RetryAccountingValidDelay ==
    (call = "execute_task" /\ task.retry_count >= 0 /\ task.retry_delay >= 0) =>
        \A i \in Items : AlwaysFailed(i) => RetryAccounting(i)

\* the call has returned with a node that failed the first attempt and every
\* retry
C3_RetriesExhausted ==
    /\ Returned
    /\ task.retry_count >= 1
    /\ task.retry_delay >= 0
    /\ \E i \in Items : AlwaysFailed(i) /\ w[i].made = task.retry_count + 1

\* the retry policy for the unit of work i, once its future is completed
\* after at least one attempt
RetryPolicy(i) ==
    /\ w[i].future = "result"
    /\ w[i].made <= task.retry_count + 1
    /\ w[i].slept = w[i].made - 1
    /\ w[i].value = {w[i].result}
    /\ w[i].result.success <=> w[i].outcome = "exit0"
    /\ w[i].result.success <=> w[i].failed = w[i].made - 1
    /\ ~w[i].result.success <=> w[i].failed = w[i].made
    /\ ~w[i].result.success => w[i].made = task.retry_count + 1
    /\ w[i].result.retry_count = w[i].made - 1

\* C4, as stated: an attempt fails on a non-zero exit, a failed connect or any
\* raised error; each failed attempt but the last is followed by a sleep and
\* another attempt, at most retry_count more; no attempt follows a success;
\* the result returned is the last attempt's, with retry_count the number of
\* failed attempts before it.
C4_RetryPolicy ==
    call = "execute_task" =>
        \A i \in Items : (w[i].pc = "done" /\ w[i].made >= 1) => RetryPolicy(i)

\* C4, amended: the same for a task whose retry_delay is not negative.
C4_RetryPolicyValidDelay ==
    (call = "execute_task" /\ task.retry_delay >= 0) =>
        \A i \in Items : (w[i].pc = "done" /\ w[i].made >= 1) => RetryPolicy(i)

\* a node that succeeded on a retry, after a failed attempt and a sleep
C4_SuccessOnRetry ==
    /\ call = "execute_task"
    /\ \E i \in Items :
          /\ w[i].pc = "done"
          /\ w[i].result.success
          /\ w[i].failed >= 1
          /\ w[i].slept >= 1

\* the workers with a command in flight on the Session object k
InFlight(k) == {i \in Items : w[i].pc = "exec_inflight" /\ w[i].conn = k}

\* C5: at most one command is in flight on a Session at any time.
C5_OneCommandPerSession ==
    \A k \in Slots : Cardinality(InFlight(k)) <= 1

\* a command in flight on a Session while another worker waits for that
\* Session's lock
C5_SecondCommandWaits ==
    \E i, j \in Items :
        /\ i # j
        /\ w[i].conn = w[j].conn
        /\ w[i].pc = "exec_inflight"
        /\ w[j].pc = "exec_lock"

\* commands in flight on the Sessions of two nodes at once
C5_ParallelAcrossNodes ==
    \E i, j \in Items :
        /\ w[i].node # w[j].node
        /\ w[i].pc = "exec_inflight"
        /\ w[j].pc = "exec_inflight"

\* C6: the map binds a node id to one Session object until the id is removed;
\* get_connection returns the Session the map holds; a Session it creates has
\* no handle and is not connected; a get_connection step changes no other
\* Session.
C6_GetConnectionStep ==
    /\ \A n \in DOMAIN connections :
          n \in DOMAIN connections' => connections'[n] = connections[n]
    /\ \A n \in DOMAIN connections' \ DOMAIN connections :
          /\ sessions'[connections'[n]].node = n
          /\ sessions'[connections'[n]].client = "None"
          /\ ~sessions'[connections'[n]].connected
          /\ ~sessions'[connections'[n]].lock
          /\ \A m \in DOMAIN connections : connections[m] # connections'[n]
    /\ \A i \in Items :
          (w[i].pc = "get_conn" /\ w'[i].pc # "get_conn") =>
              /\ w'[i].conn = connections'[w[i].node]
              /\ \A k \in Slots \ {w'[i].conn} : sessions'[k] = sessions[k]
              /\ w[i].node \in DOMAIN connections =>
                     sessions'[w'[i].conn] = sessions[w'[i].conn]

C6_OneSessionPerNode == [][C6_GetConnectionStep]_vars

\* two workers hold the one Session the map has for their node
C6_SharedSession ==
    \E i, j \in Items :
        /\ i # j
        /\ w[i].node \in DOMAIN connections
        /\ w[i].conn = connections[w[i].node]
        /\ w[j].conn = w[i].conn

\* the open, connected handles of node n
LiveHandles(n) ==
    {k \in Slots : sessions[k].node = n /\ sessions[k].connected
                   /\ sessions[k].client = "active"}

\* C7: at most one open, connected handle exists for any node id.
C7_OneLiveHandlePerNode ==
    \A n \in NodeIds : Cardinality(LiveHandles(n)) <= 1

\* C8: the units of work running at any instant number at most
\* min(k, max_concurrent), k the number of resolved targets.
C8_BoundedConcurrency ==
    Cardinality(Running) <= Min(Len(nodes), max_concurrent)

\* the ceiling is reached while a unit of work is still queued
C8_CeilingReached ==
    /\ Cardinality(Running) = max_concurrent
    /\ \E i \in Items : w[i].pc = "queued"

\* C9: under fair scheduling execute_task returns, and when it has returned
\* every unit of work of the call has completed.
C9_ReturnsWhenAllDone ==
    /\ (call = "execute_task") ~> (mpc = "returned")
    /\ [](Returned => \A i \in Items : w[i].pc = "done")

\* C10: connect returns True with connected set, the handle open and
\* last_activity the time of the return, or False with connected cleared and
\* no handle left.
C10_ConnectStep ==
    /\ (op.pc = "connecting" /\ op'.pc # "connecting") =>
          LET s == sessions'[op.conn]
          IN  \/ s.connected /\ s.client = "active" /\ s.last_activity = now'
                 /\ ~s.lock
              \/ ~s.connected /\ s.client = "None" /\ ~s.lock
    /\ \A i \in Items :
        (w[i].pc = "connecting" /\ w'[i].pc # "connecting") =>
            LET k == w[i].conn
            IN  IF w'[i].outcome = "connected"
                THEN /\ k \in Referenced(connections', w', op') =>
                            /\ sessions'[k].connected
                            /\ sessions'[k].client = "active"
                            /\ sessions'[k].last_activity = now'
                            /\ ~sessions'[k].lock
                     /\ call = "connect_nodes" => w'[i].ok
                     /\ call = "execute_task" =>
                            w'[i].result.error_message # "cannot connect"
                ELSE /\ ~sessions'[k].connected
                     /\ sessions'[k].client = "None"
                     /\ ~sessions'[k].lock
                     /\ call = "connect_nodes" => ~w'[i].ok
                     /\ call = "execute_task" =>
                            w'[i].result.error_message = "cannot connect"

C10_ConnectOutcome == [][C10_ConnectStep]_vars

\* a connect that succeeded later than the Session was created
C10_ConnectedLater ==
    \E i \in Items :
        /\ w[i].outcome = "connected"
        /\ w[i].conn # 0
        /\ sessions[w[i].conn].connected
        /\ sessions[w[i].conn].last_activity > 0

\* the Session object k is still referenced after the step
StillReferenced(k) == k \in Referenced(connections', w', op')

\* what C11 says of one step of the unit of work i
C11_ExecuteStep(i) ==
    LET k == w[i].conn
    IN  /\ (w[i].pc = "exec_check" /\ w'[i].pc # "exec_check") =>
              IF ~sessions[k].connected \/ sessions[k].client = "None"
              THEN /\ w'[i].outcome = "not_connected"
                   /\ w'[i].result.error_message = "not connected"
                   /\ ~w'[i].result.success
                   /\ w'[i].pc \notin {"exec_lock", "exec_inflight"}
                   /\ StillReferenced(k) => sessions'[k] = sessions[k]
              ELSE w'[i].pc = "exec_lock"
        /\ (w[i].pc = "exec_inflight" /\ w'[i].pc # "exec_inflight") =>
              /\ w'[i].outcome \in {"raised", "exit0", "nonzero"}
              /\ w'[i].outcome = "raised" =>
                    /\ w'[i].result.error_message = "transport error"
                    /\ StillReferenced(k) =>
                          sessions'[k].last_activity = sessions[k].last_activity
              /\ w'[i].outcome # "raised" =>
                    /\ w'[i].result.error_message = ""
                    /\ StillReferenced(k) => sessions'[k].last_activity = now'

\* C11: execute_command called on a Session that is not connected or has no
\* handle fails with the not-connected error, invokes no command and leaves
\* the Session as it was; an error raised by the command is handed to the
\* caller as raised, and last_activity is set to the time of the return when
\* the command returned and left alone when it raised.
C11_ExecuteOutcome == [][\A i \in Items : C11_ExecuteStep(i)]_vars

\* a Session disconnected by the other thread after is_alive found it usable:
\* execute_command refused it
C11_RefusedAfterDisconnect ==
    \E i \in Items : w[i].outcome = "not_connected" /\ w[i].made >= 1

\* connect_nodes is over, by a return or by an exception
ConnectNodesOver == call = "connect_nodes" /\ mpc \in {"returned", "raised"}

\* C12: connect_nodes returns, and the map it returns has the ids of the
\* requested nodes as its keys, each with the outcome of a connect of that node.
C12_OneBooleanPerNode ==
    ConnectNodesOver =>
        /\ mpc = "returned"
        /\ DOMAIN cresults = {nodes[k].id : k \in 1..Len(nodes)}
        /\ \A n \in DOMAIN cresults :
               \E i \in Items : w[i].node = n /\ cresults[n] = w[i].ok

\* what C13 says of one step of the thread issuing pool operations
C13_DisconnectStep ==
    /\ (op.pc = "locked" /\ op.kind \in {"disconnect_node", "disconnect_all"}
          /\ op.cur # 0 /\ op'.cur = 0) =>
          LET k == connections[op.cur]
          IN  sessions'[k].client = "None" /\ ~sessions'[k].connected
    /\ (op.pc = "locked" /\ op'.pc = "idle" /\ op.kind = "disconnect_all") =>
          /\ connections' = << >>
          /\ op.remove = DOMAIN connections
          /\ op.alone =>
                \A n \in DOMAIN connections :
                    /\ sessions[connections[n]].client = "None"
                    /\ ~sessions[connections[n]].connected
    /\ (op.pc = "locked" /\ op'.pc = "idle" /\ op.kind = "disconnect_node") =>
          /\ op.node \notin DOMAIN connections'
          /\ \A n \in DOMAIN connections \ {op.node} :
                 n \in DOMAIN connections' /\ connections'[n] = connections[n]
    /\ (op.pc = "locked" /\ op'.pc = "idle" /\ op.remove = {}
          /\ op.kind \in {"disconnect_node", "disconnect_all"}) =>
          /\ connections' = connections
          /\ sessions' = sessions

OlderThanTimeout(n) ==
    op.time - sessions[connections[n]].last_activity > op.timeout

\* what C14 says of one step of cleanup_idle_connections
C14_CleanupStep ==
    /\ (op.pc = "idle" /\ op'.pc = "locked" /\ op'.kind = "cleanup") =>
          op'.time = now' /\ sessions' = sessions /\ connections' = connections
    /\ (op.pc = "locked" /\ op.kind = "cleanup" /\ op'.work # op.work) =>
          /\ \A n \in op.work \ op'.work :
                 IF OlderThanTimeout(n) THEN op'.cur = n ELSE op'.cur = 0
          /\ sessions' = sessions
          /\ connections' = connections
    /\ (op.pc = "locked" /\ op.kind = "cleanup" /\ op.cur # 0 /\ op'.cur = 0) =>
          /\ sessions'[connections[op.cur]].client = "None"
          /\ ~sessions'[connections[op.cur]].connected
          /\ \A k \in Slots \ {connections[op.cur]} : sessions'[k] = sessions[k]
          /\ op'.remove = op.remove \cup {op.cur}
          /\ connections' = connections
    /\ (op.pc = "locked" /\ op.kind = "cleanup" /\ op'.pc = "idle") =>
          /\ DOMAIN connections' = DOMAIN connections \ op.remove
          /\ \A n \in DOMAIN connections' :
                 /\ connections'[n] = connections[n]
                 /\ sessions'[connections'[n]] = sessions[connections[n]]
                 /\ ~OlderThanTimeout(n)
          /\ op.alone => \A n \in op.remove : OlderThanTimeout(n)

\* C14: cleanup_idle_connections disconnects and removes from the map the
\* Sessions whose last_activity lies more than idle_timeout before the time of
\* the call, and leaves every other Session of the map, its handle, flag and
\* last_activity as they are.
C14_CleanupFrame == [][C14_CleanupStep]_vars

\* a cleanup about to return that disconnected one Session and passed over
\* another, which is still connected
C14_OneRemovedOneKept ==
    /\ op.pc = "locked"
    /\ op.kind = "cleanup"
    /\ op.work = {}
    /\ op.cur = 0
    /\ op.remove # {}
    /\ \E n \in DOMAIN connections \ op.remove :
          sessions[connections[n]].connected

\* what C15 says of one step of is_alive, called by the unit of work i
C15_IsAliveStep(i) ==
    LET s == sessions[w[i].conn]
    IN  /\ (w[i].pc = "is_alive" /\ w'[i].pc # "is_alive") =>
              IF s.connected /\ s.client # "None"
              THEN w'[i].pc = "alive_probe"
              ELSE w'[i].pc = "connect" /\ w'[i].outcome = w[i].outcome
        /\ (w[i].pc = "alive_probe" /\ w'[i].pc # "alive_probe") =>
              /\ w'[i].outcome # "probe_raised"
              /\ w'[i].outcome = "alive" => s.client = "active"
              /\ IF s.client = "active"
                 THEN w'[i].pc # "connect"
                 ELSE w'[i].pc = "connect"
                      /\ w'[i].result = w[i].result
                      /\ w'[i].failed = w[i].failed

\* C15: is_alive returns True only after it found the Session marked connected
\* with a handle and the handle's transport active, and returns False in every
\* other case, a fault of the probe included, whatever connect and disconnect
\* do to the Session meanwhile.
C15_IsAliveNeverRaises == [][\A i \in Items : C15_IsAliveStep(i)]_vars

\* the Session was disconnected between the two tests of is_alive: the probe
\* faulted on the handle that is gone and is_alive returned False
C15_ProbeAfterDisconnect ==
    \E i \in Items : w[i].pc = "connect" /\ w[i].outcome = "probe_error"

\* the id names a node of the configuration
Configured(node_id) == \E k \in 1..Len(ConfigNodes) : ConfigNodes[k].id = node_id

TargetIds == [k \in 1..Len(nodes) |-> nodes[k].id]

\* C16: execute_task on a non-empty id list targets the nodes the list names,
\* in the order of the list and enabled or not; on an empty id list it targets
\* the enabled nodes; and with no target it returns an empty list, no unit of
\* work having been made and no Session created.
C16_TargetResolution ==
    (call = "execute_task" /\ mpc # "start") =>
        /\ task.node_ids # << >> =>
              /\ TargetIds = SelectSeq(task.node_ids, Configured)
              /\ \A k \in 1..Len(nodes) :
                    \E j \in 1..Len(ConfigNodes) : nodes[k] = ConfigNodes[j]
        /\ task.node_ids = << >> =>
              /\ \A j \in 1..Len(ConfigNodes) :
                    ConfigNodes[j].enabled <=>
                        \E k \in 1..Len(nodes) : nodes[k] = ConfigNodes[j]
              /\ \A k, l \in 1..Len(nodes) : nodes[k] = nodes[l] => k = l
        /\ nodes = << >> =>
              /\ mpc = "returned"
              /\ results = << >>
              /\ w = << >>
              /\ connections = << >>
              /\ \A k \in Slots : sessions[k] = FreeSlot

\* a call whose id list names no node has returned the empty list
C16_NoTargetReturnsEmpty ==
    Returned /\ task.node_ids # << >> /\ nodes = << >> /\ results = << >>

\* every attempt of the unit of work i ended on a connect that failed
NeverConnected(i) ==
    w[i].pc = "done" /\ w[i].made >= 1 /\ w[i].refused = w[i].made

ConnectFailureResult(r) ==
    ~r.success /\ r.error_message # "" /\ r.exit_code = {}

ExitZeroResult(r) ==
    r.success /\ r.exit_code = {0} /\ r.stdout = "output"

\* C17: in the list a ShellCommand task returns, a node whose Session never
\* connected has a TaskResult with success false, an error message and no exit
\* code, and a node whose command exited 0 has one with success true, exit
\* code 0 and the command's stdout.
C17_FailureAndSuccessResults ==
    (Returned /\ task.task_type = "shell_command") =>
        \A i \in Items :
            /\ NeverConnected(i) =>
                  /\ \E k \in ResultsOf(w[i].node) : ConnectFailureResult(Entry(k))
                  /\ Distinct(nodes) =>
                        \A k \in ResultsOf(w[i].node) :
                            ConnectFailureResult(Entry(k))
            /\ (w[i].pc = "done" /\ w[i].outcome = "exit0") =>
                  /\ \E k \in ResultsOf(w[i].node) : ExitZeroResult(Entry(k))
                  /\ Distinct(nodes) =>
                        \A k \in ResultsOf(w[i].node) : ExitZeroResult(Entry(k))

\* one node never connected in two attempts, the other ran the command at
\* its first attempt, and the list holds one result of each
C17_BothInOneList ==
    /\ Returned
    /\ Len(results) = 2
    /\ \E i, j \in Items :
          /\ w[i].node # w[j].node
          /\ NeverConnected(i) /\ w[i].made = 2
          /\ w[j].outcome = "exit0" /\ w[j].made = 1

\* C18: a task whose kind is none of ShellCommand, ImagePull, ImageBuild and
\* ImagePush is raised to the caller of execute_task before the batch starts:
\* the call does not return a list and no connect is made on any node.
C18_UnsupportedKindRejected ==
    (call = "execute_task" /\ task.task_type \notin SupportedTypes) =>
        /\ mpc # "returned"
        /\ \A i \in Items : w[i].pc # "connecting" /\ w[i].outcome = "none"

\* the credential the stated precedence picks: node key file, node password,
\* pool key file, pool password, environment password
StatedPrecedence(c) ==
    IF c.node.key_file THEN "node_key"
    ELSE IF c.node.password THEN "node_password"
    ELSE IF c.ssh.key_file THEN "pool_key"
    ELSE IF c.ssh.password THEN "pool_password"
    ELSE IF c.env THEN "env_password"
    ELSE "none"

\* C19: whatever credentials are configured, with every configured key file
\* in place, connect authenticates with the first of node key file, node
\* password, pool key file, pool password and environment password that is
\* configured, and a Session with none of them does not connect.
C19_CredentialPrecedence ==
    creds.key_exists =>
        \A k \in Slots :
            sessions[k].auth # "unset" =>
                /\ sessions[k].auth = StatedPrecedence(creds)
                /\ StatedPrecedence(creds) = "none" => ~sessions[k].connected

\* the tag among the task's extra parameters, 'latest' when they hold none
StatedTag(t) ==
    LET tags == {kv[2] : kv \in {x \in UNION t.extra_params : x[1] = "tag"}}
    IN  IF tags = {} THEN "latest" ELSE CHOOSE v \in tags : TRUE

\* the command each supported kind is said to issue
StatedCommand(t) ==
    CASE t.task_type = "shell_command" -> << t.command >>
      [] t.task_type = "docker_pull"   -> << "docker", "pull", t.command >>
      [] t.task_type = "docker_push"   -> << "docker", "push", t.command >>
      [] t.task_type = "docker_build"  ->
             << "docker", "build", "-t", StatedTag(t), t.command >>

\* the command of the unit of work i is on the node, or has come back
Issued(i) == w[i].pc = "exec_inflight" \/ w[i].outcome \in {"exit0", "nonzero"}

\* C20: the command issued to a node is the task's command text for
\* ShellCommand, docker pull <ref> for ImagePull, docker push <ref> for
\* ImagePush and docker build -t <tag> <path> for ImageBuild, the tag being
\* the one of the extra parameters; and the result of a command that came
\* back has success true exactly when the exit code is 0.
C20_CommandByKind ==
    \A i \in Items :
        /\ Issued(i) =>
              /\ task.task_type \in SupportedTypes
              /\ w[i].command = StatedCommand(task)
        /\ w[i].outcome \in {"exit0", "nonzero"} =>
              /\ w[i].result.exit_code # {}
              /\ w[i].result.success <=> w[i].result.exit_code = {0}
              /\ w[i].outcome = "exit0" <=> w[i].result.exit_code = {0}

\* an ImageBuild task carrying the tag v1 has run docker build -t v1 <path>
\* and the command exited 0
C20_TaggedBuildSucceeded ==
    \E i \in Items :
        /\ task.task_type = "docker_build"
        /\ StatedTag(task) = "v1"
        /\ w[i].pc = "done"
        /\ w[i].outcome = "exit0"
        /\ w[i].result.success

\* ======================================================== NodeSelector calls
\* the nodes a configuration can hold: id, name and address are the node's,
\* enabled is the operator's choice
SelectorNode(id, enabled) ==
    [id |-> id, enabled |-> enabled,
     name |-> CASE id = 0 -> << "A" >>
                [] id = 1 -> << "0" >>
                [] id = 2 -> << "A", "l", "l" >>
                [] OTHER  -> << "n" >>,
     ip   |-> CASE id = 0 -> << "1" >>
                [] id = 1 -> << "A" >>
                [] id = 2 -> << "a" >>
                [] OTHER  -> << "i" >>]

\* every list of the nodes 0, 1, 2 without a repeated id, in any order and
\* with any choice of enabled
AllNodeLists ==
    {ns \in SeqsUpTo({SelectorNode(id, en) : id \in 0..2, en \in BOOLEAN}, 3) :
        \A k, l \in 1..Len(ns) : ns[k].id = ns[l].id => k = l}

\* node lists for the token forms: none, all three, and lists out of id order
N0 == SelectorNode(0, TRUE)
N1 == SelectorNode(1, FALSE)
N2 == SelectorNode(2, TRUE)
TokenNodeLists ==
    {<< >>, << N0, N1, N2 >>, << N2, N0 >>, << N1, N2 >>, << N2 >>, << N1 >>}

\* ids 0, 1, 2, 3, 4, 5 and 10, with the expression 0,2-4,10
ExampleNodes ==
    [k \in 1..7 |-> SelectorNode(IF k = 7 THEN 10 ELSE k - 1, k # 4)]
ExampleExpr == << "0", ",", "2", "-", "4", ",", "1", "0" >>

Alphabet == {"0", "1", "2", "-", ",", " ", "a", "A", "²"}

\* the keywords as typed in several cases, blank texts, and texts that are
\* no keyword
KeywordExprs ==
    {<< >>, << " " >>, KwAll, << "A", "L", "L" >>,
     << " " >> \o KwAll \o << " " >>,
     << "A", "l", "l", "-", "E", "n", "a", "b", "l", "e", "d" >>,
     KwAllDisabled, << "A", "L", "L", "-", "a", "l", "l" >>,
     KwAll \o << "," >>, << "a" >>}

\* some longer expressions: a repeated id, overlapping ranges
LongExprs ==
    {<< "2", ",", "0", ",", "2" >>, << "1", "-", "2", ",", "0", "-", "1" >>}

\* the expressions a call is made with
Expressions(s) ==
    IF s.typed = "keywords" THEN KeywordExprs
    ELSE IF s.all_nodes = ExampleNodes THEN {ExampleExpr}
    ELSE SeqsUpTo(Alphabet, MaxExpr) \cup LongExprs

\* no Session in the pool
PoolEmpty == connections = << >> /\ sessions = [k \in Slots |-> FreeSlot]

\* the engine is not running while the selector or the script executor is
\* called
EngineAtRest ==
    /\ call = "execute_task"
    /\ task = [node_ids |-> << >>, command |-> "arg", extra_params |-> NoExtras,
               task_type |-> "shell_command", retry_count |-> 0,
               retry_delay |-> 0]
    /\ max_concurrent = 1
    /\ nodes = << >>
    /\ max_workers = 0
    /\ mpc = "returned"
    /\ w = << >>
    /\ collected = {}
    /\ results = << >>
    /\ cresults = << >>
    /\ maplock = FALSE
    /\ op = IdleOp(0)
    /\ now = 0
    /\ horizon = 0
    /\ creds = PasswordOnly

\* one parse_selection call on any token expression
InitSelect ==
    /\ EngineAtRest
    /\ PoolEmpty
    /\ runner = NoRunner
    /\ \E ns \in TokenNodeLists \cup {ExampleNodes} :
          selector = [all_nodes |-> ns, typed |-> "tokens", left |-> 1,
                      parses |-> {}]

\* some calls with keywords, over any node list
InitKeywords ==
    /\ EngineAtRest
    /\ PoolEmpty
    /\ runner = NoRunner
    /\ \E ns \in AllNodeLists :
          selector = [all_nodes |-> ns, typed |-> "keywords",
                      left |-> MaxParses, parses |-> {}]

\* node_selector.parse_selection(selection)
ParseSelection ==
    /\ selector.left > 0
    /\ \E selection \in Expressions(selector) :
          selector' = [selector EXCEPT
              !.left = @ - 1,
              !.parses = @ \cup {[selection |-> selection]
                                   @@ parse_selection(selector.all_nodes, selection)}]
    /\ UNCHANGED << call, task, max_concurrent, nodes, max_workers, mpc, w,
                    collected, results, cresults, connections, sessions,
                    maplock, op, now, horizon, creds, runner >>

NextSelect == ParseSelection

SpecSelect == InitSelect /\ [][NextSelect]_vars

SpecKeywords == InitKeywords /\ [][NextSelect]_vars

\* the calls made so far, each with the expression it was given
Parses == selector.parses

Ids(ns) == [k \in 1..Len(ns) |-> ns[k].id]

NoDuplicate(ids) == \A k, l \in 1..Len(ids) : ids[k] = ids[l] => k = l

\* the position at which the id first occurs in the list
FirstAt(ids, id) == CHOOSE k \in 1..Len(ids) : ids[k] = id /\ \A j \in 1..(k - 1) : ids[j] # id

\* C21: a list parse_selection returns has no node id twice, and, for an
\* expression parsed token by token, holds the ids of the per-token results
\* in the order in which each first occurs in their concatenation.
C21_DeduplicatedInOrder ==
    \A p \in Parses :
        LET r   == p
            got == Ids(r.returned)
            cat == Ids(r.selected_nodes)
        IN  ~r.raised =>
              /\ NoDuplicate(got)
              /\ ~r.keyword =>
                    /\ {got[k] : k \in 1..Len(got)} = {cat[k] : k \in 1..Len(cat)}
                    /\ \A k, l \in 1..Len(got) :
                          k < l => FirstAt(cat, got[k]) < FirstAt(cat, got[l])

\* a node selected twice, after a node with a larger id: the list returned
\* has it once and is not sorted by id
C21_RepeatedOutOfOrder ==
    \E p \in Parses :
        LET r == p
        IN  /\ ~r.raised /\ ~r.keyword
            /\ Len(r.selected_nodes) > Len(r.returned)
            /\ \E k, l \in 1..Len(r.returned) :
                  k < l /\ r.returned[k].id > r.returned[l].id

\* the call p was made with the keyword, in whatever letter case
Typed(p, keyword) == lower(strip(p.selection)) = keyword

NodesOf(p) == {p.returned[k] : k \in 1..Len(p.returned)}

IdsOf(p) == {n.id : n \in NodesOf(p)}

\* C22: over one node list, every node all-enabled returns and every node
\* all-disabled returns is among the nodes all-all returns, and all-enabled
\* and all-disabled return no node id in common.
C22_KeywordPartition ==
    \A p, q, r \in Parses :
        (Typed(p, KwAllAll) /\ Typed(q, KwAllEnabled) /\ Typed(r, KwAllDisabled)) =>
            /\ NodesOf(q) \cup NodesOf(r) \subseteq NodesOf(p)
            /\ IdsOf(q) \cap IdsOf(r) = {}

\* the three keywords were parsed over a list with enabled and disabled nodes
C22_ThreeKeywordsParsed ==
    \E p, q, r \in Parses :
        /\ Typed(p, KwAllAll) /\ Typed(q, KwAllEnabled) /\ Typed(r, KwAllDisabled)
        /\ NodesOf(q) # {} /\ NodesOf(r) # {}
        /\ NodesOf(p) = NodesOf(q) \cup NodesOf(r)

\* the decimal numeral of a number below 100
Numeral(n) ==
    IF n < 10 THEN << DecimalDigits[n + 1] >>
    ELSE << DecimalDigits[(n \div 10) + 1], DecimalDigits[(n % 10) + 1] >>

Numbers == 0..12

\* the nodes of the list whose id lies between the two numbers, whichever
\* is the larger
NodesBetween(ns, a, b) ==
    {ns[k] : k \in {j \in 1..Len(ns) :
                       /\ (IF a < b THEN a ELSE b) <= ns[j].id
                       /\ ns[j].id <= (IF a < b THEN b ELSE a)}}

\* C23: the expression a-b selects the nodes of the list, enabled or not,
\* whose id lies in [min(a,b), max(a,b)], and no other node; and 0,2-4,10
\* over the ids 0, 1, 2, 3, 4, 5, 10 selects 0, 2, 3, 4, 10 in that order.
C23_InclusiveRange ==
    \A p \in Parses :
        /\ \A a, b \in Numbers :
              p.selection = Numeral(a) \o << "-" >> \o Numeral(b) =>
                  /\ ~p.raised
                  /\ NodesOf(p) = NodesBetween(selector.all_nodes, a, b)
        /\ (selector.all_nodes = ExampleNodes /\ p.selection = ExampleExpr) =>
              /\ ~p.raised
              /\ Ids(p.returned) = << 0, 2, 3, 4, 10 >>

\* the range 2-0, larger bound first, has selected the three nodes of the
\* list, the disabled one among them
C23_DescendingRange ==
    \E p \in Parses :
        /\ p.selection = << "2", "-", "0" >>
        /\ Len(p.returned) = 3
        /\ \E k \in 1..3 : ~p.returned[k].enabled

\* the expression is one token that is no range
SingleIdentifier(e) ==
    /\ strip(e) # << >>
    /\ \A k \in 1..Len(e) : e[k] # ","
    /\ ~_is_range_format(lower(strip(e)))
    /\ keyword_selection(<< >>, e) = {}

\* the ids of the first node of the list that passes the test, if any
FirstId(ns, Test(_)) ==
    LET hits == SelectSeq(ns, Test)
    IN  IF hits = << >> THEN << >> ELSE << Head(hits).id >>

\* the stated resolution of an identifier: numeric id, then name in any
\* letter case, then the address as it is
StatedResolution(ns, t) ==
    LET by_id   == IF int(t) = {} THEN << >>
                   ELSE FirstId(ns, LAMBDA n : n.id \in int(t))
        by_name == FirstId(ns, LAMBDA n : lower(n.name) = lower(t))
        by_ip   == FirstId(ns, LAMBDA n : n.ip = t)
    IN  IF by_id # << >> THEN by_id
        ELSE IF by_name # << >> THEN by_name
        ELSE by_ip

\* C24: parse_selection raises for no expression, and an expression that is
\* one identifier selects the node found by numeric id, else by name in any
\* letter case, else by exact address, and no node when none is found.
C24_IdentifierResolution ==
    \A p \in Parses :
        /\ ~p.raised
        /\ SingleIdentifier(p.selection) =>
              Ids(p.returned) = StatedResolution(selector.all_nodes, strip(p.selection))

Listed(ns) == {ns[k] : k \in 1..Len(ns)}

\* the list holds exactly these nodes, each once
Exactly(returned, S) == Listed(returned) = S /\ Len(returned) = Cardinality(S)

\* the text is empty or holds whitespace only
Blank(e) == \A k \in 1..Len(e) : e[k] \in Whitespace

\* C25: an empty or blank expression, all and all-enabled in any letter case
\* select exactly the enabled nodes, all-disabled exactly the disabled nodes
\* and all-all every node; a keyword is never read as a node's name.
C25_Keywords ==
    \A p \in Parses :
        LET all == Listed(selector.all_nodes)
        IN  /\ (Blank(p.selection) \/ Typed(p, KwAll) \/ Typed(p, KwAllEnabled)) =>
                  ~p.raised /\ Exactly(p.returned, {n \in all : n.enabled})
            /\ Typed(p, KwAllDisabled) =>
                  ~p.raised /\ Exactly(p.returned, {n \in all : ~n.enabled})
            /\ Typed(p, KwAllAll) =>
                  ~p.raised /\ Exactly(p.returned, all)

\* ALL, typed in capitals over a list with a disabled node named All, has
\* selected the enabled nodes and not the node of that name
C25_KeywordBeforeName ==
    \E p \in Parses :
        /\ p.selection = << "A", "L", "L" >>
        /\ p.returned # << >>
        /\ \E n \in Listed(selector.all_nodes) :
              lower(n.name) = KwAll /\ ~n.enabled /\ n \notin Listed(p.returned)

\* ====================================================== ScriptExecutor calls
\* str.startswith
startswith(s, prefix) ==
    Len(prefix) <= Len(s) /\ SubSeq(s, 1, Len(prefix)) = prefix

\* the beginnings of script_content the code looks for; a text is cut into
\* pieces here where these beginnings end
EnvPython == << "#!", "/usr/bin/", "env ", "python" >>
UsrBinPython == << "#!", "/usr/bin/", "python" >>
BinBash == << "#!", "/bin/", "bash" >>
UsrBinBash == << "#!", "/usr/bin/", "bash" >>
Shebang == << "#!" >>

\* the scripts staged: their first line, then the body
ScriptHeads ==
    {EnvPython \o << "3" >>, UsrBinPython, << "#!", "/usr/local/bin/", "python" >>,
     BinBash, UsrBinBash, << "#!", "/usr/bin/", "env ", "bash" >>,
     << "#!", "/bin/", "sh" >>, << "#!", "/usr/bin/", "perl" >>,
     << "echo" >>, << "\n", "#!", "/bin/", "bash" >>}

\* the extensions of remote_script_path, as os.path.splitext gives them
Extensions ==
    {<< ".", "p", "y" >>, << ".", "P", "Y" >>, << ".", "s", "h" >>,
     << ".", "b", "a", "s", "h" >>, << ".", "l", "i", "s", "p" >>, << >>}

ExtPy == << ".", "p", "y" >>
ExtSh == << ".", "s", "h" >>
ExtBash == << ".", "b", "a", "s", "h" >>

\* _execute_script_on_node, step 3: what execute_command is prefixed with;
\* "direct" is the path itself
interpreter_of(extension, script_content) ==
    LET script_extension == lower(extension)
    IN  IF script_extension = ExtPy THEN "python3"
        ELSE IF startswith(script_content, EnvPython)
                \/ startswith(script_content, UsrBinPython)
        THEN "python3"
        ELSE IF script_extension \in {ExtSh, ExtBash}
                \/ startswith(script_content, BinBash)
                \/ startswith(script_content, UsrBinBash)
        THEN "bash"
        ELSE IF startswith(script_content, Shebang) THEN "direct"
        ELSE "bash"

StagedSteps == << "write", "chmod", "run", "cleanup" >>

\* the command of each step, word by word
step_command(step, r) ==
    CASE step = "write"   -> << "cat >", "path", "<< 'EOF'", "content", "EOF" >>
      [] step = "chmod"   -> << "chmod +x", "path" >>
      [] step = "run"     ->
             LET how == interpreter_of(r.extension, r.script_content)
             IN  IF how = "direct" THEN << "path", "args" >>
                 ELSE << how, "path", "args" >>
      [] step = "cleanup" -> << "rm -f", "path" >>

\* what a step leaves on stderr when it exits non-zero
StderrOf(step) == << "stderr", step >>

\* the text of the exception raised when the step exits non-zero
step_error(step) ==
    CASE step = "write" -> << "create failed: " >> \o StderrOf(step)
      [] step = "chmod" -> << "chmod failed: " >> \o StderrOf(step)

\* TaskResult as _execute_script_on_node first builds it
NewScriptResult ==
    [success |-> FALSE, exit_code |-> {}, stdout |-> << >>, stderr |-> << >>,
     error_message |-> << >>]

\* the except branch of _execute_script_on_node: str(e) goes into the result
script_raised(r, msg) ==
    [r EXCEPT !.pc = "done", !.result.error_message = msg]

\* a run that exits non-zero raising like write and chmod do
after_step_run_raises(r, step, outcome) ==
    LET done == [r EXCEPT !.steps = Append(@, [step |-> step, outcome |-> outcome,
                                               command |-> step_command(step, r)])]
    IN  IF outcome = "raised" THEN script_raised(done, << "transport error" >>)
        ELSE IF outcome = "nonzero" /\ step # "cleanup"
        THEN script_raised(done, << step, " failed: " >> \o StderrOf(step))
        ELSE IF step \in {"write", "chmod"}
        THEN [done EXCEPT !.pc = IF step = "write" THEN "chmod" ELSE "run"]
        ELSE IF step = "run"
        THEN LET res == [r.result EXCEPT !.exit_code = {0},
                                         !.stdout = << "stdout", step >>,
                                         !.success = TRUE]
             IN  [done EXCEPT !.pc = "cleanup", !.result = res, !.after_run = {res}]
        ELSE [done EXCEPT !.pc = "done"]

\* _execute_script_on_node after execute_command came back from a step:
\* write and chmod raise on a non-zero exit code, run fills the result in,
\* the exit code of cleanup is not looked at; an exception of execute_command
\* ends the call in the except branch, whatever the step
after_step(r, step, outcome) ==
    LET done == [r EXCEPT !.steps = Append(@, [step |-> step, outcome |-> outcome,
                                               command |-> step_command(step, r)])]
    IN  IF outcome = "raised" THEN script_raised(done, << "transport error" >>)
        ELSE IF step \in {"write", "chmod"}
        THEN IF outcome = "nonzero" THEN script_raised(done, step_error(step))
             ELSE [done EXCEPT !.pc = IF step = "write" THEN "chmod" ELSE "run"]
        ELSE IF step = "run"
        THEN LET res == [r.result EXCEPT
                            !.exit_code = {IF outcome = "exit0" THEN 0 ELSE 1},
                            !.stdout = << "stdout", step >>,
                            !.stderr = IF outcome = "exit0" THEN << >>
                                       ELSE StderrOf(step),
                            !.success = (outcome = "exit0")]
             IN  [done EXCEPT !.pc = "cleanup", !.result = res, !.after_run = {res}]
        ELSE [done EXCEPT !.pc = "done"]

\* script_executor._execute_script_on_node(node 1, ...) is called
NewStaged(extension, script_content) ==
    [call |-> "staged", node |-> 1, extension |-> extension,
     script_content |-> script_content, pc |-> "connect", steps |-> << >>,
     result |-> NewScriptResult, after_run |-> {}]

\* _execute_script_on_node up to step 1: get_connection, is_alive and, when
\* the Session is not alive, connect
StagedConnect ==
    /\ runner.call = "staged"
    /\ runner.pc = "connect"
    /\ LET fresh == FreshSlot(connections, w, op)
           conns == get_connection(connections, runner.node, fresh)
           k     == conns[runner.node]
           sess  == IF runner.node \in DOMAIN connections THEN sessions
                    ELSE [sessions EXCEPT ![fresh] = NewConnection(runner.node, now)]
           alive == is_alive_check(sess[k]) /\ is_alive_probe(sess[k]) = "True"
       IN  /\ connections' = conns
           /\ IF alive
              THEN /\ sessions' = sess
                   /\ runner' = [runner EXCEPT
                          !.pc = "write",
                          !.steps = Append(@, [step |-> "connect", outcome |-> "alive",
                                               command |-> << >>])]
              ELSE \E outcome \in connect_outcomes(connect_begin(sess[k])) :
                   /\ sessions' = [sess EXCEPT ![k] =
                          IF outcome = "ok" THEN connect_success(connect_begin(@), now)
                          ELSE connect_failure(connect_begin(@))]
                   /\ runner' =
                        LET r == [runner EXCEPT
                                    !.steps = Append(@, [step |-> "connect",
                                                         outcome |-> outcome,
                                                         command |-> << >>])]
                        IN  IF outcome = "ok" THEN [r EXCEPT !.pc = "write"]
                            ELSE script_raised(r, << "cannot connect" >>)
    /\ UNCHANGED << call, task, max_concurrent, nodes, max_workers, mpc, w,
                    collected, results, cresults, maplock, op, now, horizon,
                    creds, selector >>

\* one step of _execute_script_on_node: connection.execute_command(...) and
\* what the code does with its outcome
StagedStep ==
    /\ runner.call = "staged"
    /\ \E n \in 1..Len(StagedSteps) : runner.pc = StagedSteps[n]
    /\ LET k == connections[runner.node]
       IN  IF not_connected(sessions[k])
           THEN /\ runner' = script_raised(runner, << "not connected" >>)
                /\ UNCHANGED sessions
           ELSE \E outcome \in CommandOutcomes :
                /\ sessions[k].client # "active" => outcome = "raised"
                /\ sessions' = [sessions EXCEPT ![k] =
                       IF outcome = "raised" THEN command_raised(@)
                       ELSE command_returned(@, now)]
                /\ runner' = after_step(runner, runner.pc, outcome)
    /\ UNCHANGED << call, task, max_concurrent, nodes, max_workers, mpc, w,
                    collected, results, cresults, connections, maplock, op, now,
                    horizon, creds, selector >>

\* str.split(): the words between runs of whitespace
RECURSIVE words(_)
words(s) ==
    IF s = << >> THEN << >>
    ELSE IF Head(s) \in Whitespace THEN words(Tail(s))
    ELSE LET stops == {k \in 1..Len(s) : s[k] \in Whitespace}
             k     == IF stops = {} THEN Len(s) + 1
                      ELSE CHOOSE c \in stops : \A d \in stops : c <= d
         IN  << SubSeq(s, 1, k - 1) >> \o words(SubSeq(s, k, Len(s)))

\* sep.join(texts)
RECURSIVE join(_, _)
join(texts, sep) ==
    IF texts = << >> THEN << >>
    ELSE IF Len(texts) = 1 THEN texts[1]
    ELSE texts[1] \o sep \o join(Tail(texts), sep)

SetPrefix == << "s", "e", "t", " ", "-", "-", " " >>

\* f'"{arg}"'
quoted(arg) == << "\"" >> \o arg \o << "\"" >>

\* the arguments put on the set line as they are
inline_command_unquoted(content, args) ==
    LET script_content == strip(content)
    IN  IF args # << >>
        THEN SetPrefix \o join(words(args), << " " >>) \o << "\n" >>
             \o script_content
        ELSE script_content

\* execute_local_script_remotely: the command made of args and the text of
\* the file
inline_command(content, args) ==
    LET script_content == strip(content)
        args_list      == words(args)
        escaped_args   == [k \in 1..Len(args_list) |-> quoted(args_list[k])]
        param_setup    == SetPrefix \o join(escaped_args, << " " >>)
    IN  IF args # << >>
        THEN param_setup \o << "\n" >> \o script_content
        ELSE script_content

\* task_executor.execute_shell_command: the Task handed to execute_task
shell_task(command, node_ids) ==
    [task_type |-> "shell_command", command |-> command, node_ids |-> node_ids]

\* execute_script_from_url: the command, line by line; the lines that are
\* comments are left out
fetch_command ==
    << << "curl", "||", "wget" >>, << "chmod" >>, << "bash" >>, << "rm" >> >>

\* the exit status of one line: of a || b it is a's when a succeeds, else b's
line_status(line, status) ==
    IF Len(line) = 3 /\ line[2] = "||"
    THEN IF status[line[1]] = 0 THEN 0 ELSE status[line[3]]
    ELSE status[line[1]]

\* the exit status the node's shell gives a command of several lines: the
\* lines run one after the other whatever their status, and the status of the
\* last is the status of the whole
shell_status(lines, status) == line_status(lines[Len(lines)], status)

\* the texts of the local script file
ScriptTexts == {<< "e" >>, << "e", "\n", "f", "\n" >>, << "\n", "e", " ", "f", "\n" >>}

MaxArgs == 3
ArgChars == {"a", " ", "\"", "$"}

\* script_executor.execute_local_script_remotely(script_path, [1], args)
InlineCall ==
    /\ runner.call = "inline"
    /\ runner.pc = "called"
    /\ runner' =
          IF ~runner.exists
          THEN [runner EXCEPT !.pc = "raised"]
          ELSE [runner EXCEPT
                  !.pc = "submitted",
                  !.submitted = Append(@, shell_task(
                      inline_command(runner.content, runner.args), << 1 >>))]
    /\ UNCHANGED << call, task, max_concurrent, nodes, max_workers, mpc, w,
                    collected, results, cresults, connections, sessions,
                    maplock, op, now, horizon, creds, selector >>

\* script_executor.execute_script_from_url(script_url, [1])
FetchCall ==
    /\ runner.call = "remote_fetch"
    /\ runner.pc = "called"
    /\ runner' = [runner EXCEPT
                    !.pc = "submitted",
                    !.submitted = Append(@, shell_task(fetch_command, << 1 >>))]
    /\ UNCHANGED << call, task, max_concurrent, nodes, max_workers, mpc, w,
                    collected, results, cresults, connections, sessions,
                    maplock, op, now, horizon, creds, selector >>

InnerSteps == {"curl", "wget", "chmod", "bash", "rm"}

\* the node runs the command of the remote fetch and execute_task_on_node
\* fills the result in: exit_code, and success = (exit_code == 0)
FetchRun ==
    /\ runner.call = "remote_fetch"
    /\ runner.pc = "submitted"
    /\ \E status \in [InnerSteps -> {0, 1}] :
          LET exit_code == shell_status(runner.submitted[1].command, status)
          IN  runner' = [runner EXCEPT
                  !.pc = "done",
                  !.status = status,
                  !.result = [NewScriptResult EXCEPT
                                 !.exit_code = {exit_code},
                                 !.success = (exit_code = 0)]]
    /\ UNCHANGED << call, task, max_concurrent, nodes, max_workers, mpc, w,
                    collected, results, cresults, connections, sessions,
                    maplock, op, now, horizon, creds, selector >>

\* a pool in which node 1 has a connected Session
PoolConnected ==
    /\ connections = (1 :> 1)
    /\ sessions = [k \in Slots |->
          IF k = 1
          THEN [NewConnection(1, 0) EXCEPT !.client = "active",
                                           !.connected = TRUE,
                                           !.auth = "pool_password"]
          ELSE FreeSlot]

\* one call of the script executor: a staged execution on node 1, an inline
\* execution or a remote fetch
InitRunner ==
    /\ EngineAtRest
    /\ selector = NoSelector
    /\ \/ /\ PoolEmpty \/ PoolConnected
          /\ \E x \in Extensions, c \in ScriptHeads : runner = NewStaged(x, c)
       \/ /\ PoolEmpty
          /\ \E c \in ScriptTexts, a \in SeqsUpTo(ArgChars, MaxArgs), f \in BOOLEAN :
                runner = [call |-> "inline", pc |-> "called", exists |-> f,
                          content |-> c, args |-> a, submitted |-> << >>]
       \/ /\ PoolEmpty
          /\ runner = [call |-> "remote_fetch", pc |-> "called",
                       submitted |-> << >>, status |-> << >>,
                       result |-> NewScriptResult]

NextRunner == StagedConnect \/ StagedStep \/ InlineCall \/ FetchCall \/ FetchRun

SpecRunner == InitRunner /\ [][NextRunner]_vars

\* ---- claims about the staged script

Staged == runner.call = "staged"

StagedOrder == << "connect" >> \o StagedSteps

\* the text sub is a part of the text msg
Contains(msg, sub) ==
    \E i \in 1..(Len(msg) + 1) :
        i + Len(sub) - 1 <= Len(msg) /\ SubSeq(msg, i, i + Len(sub) - 1) = sub

\* the step at position k did not go through: the connect failed, a command
\* exited non-zero or execute_command raised
StepFailed(k) ==
    LET s == runner.steps[k]
    IN  IF s.step = "connect" THEN s.outcome \notin {"alive", "ok"}
        ELSE s.outcome \in {"nonzero", "raised"}

\* the steps that are issued are the steps of the list, in its order
IssuedInOrder ==
    /\ Len(runner.steps) <= Len(StagedOrder)
    /\ \A k \in 1..Len(runner.steps) : runner.steps[k].step = StagedOrder[k]

\* C26 as stated: the steps connect, write file, set executable, run, cleanup
\* are issued in that order, and when one of connect, write file, set
\* executable or run fails no later command is issued, and the result is a
\* failure whose error message carries the stderr of the step that exited
\* non-zero.
C26_AnyFailureShortCircuits ==
    Staged =>
      /\ IssuedInOrder
      /\ \A k \in 1..Len(runner.steps) :
            (runner.steps[k].step # "cleanup" /\ StepFailed(k)) =>
              /\ k = Len(runner.steps)
              /\ runner.pc = "done"
              /\ ~runner.result.success
              /\ runner.steps[k].outcome = "nonzero" =>
                    Contains(runner.result.error_message, StderrOf(runner.steps[k].step))

\* the step at position k ended the call: the connect failed, write file or
\* set executable exited non-zero, or execute_command raised in a step
\* before cleanup
ShortCircuits(k) ==
    LET s == runner.steps[k]
    IN  /\ s.step # "cleanup"
        /\ StepFailed(k)
        /\ ~(s.step = "run" /\ s.outcome = "nonzero")

\* C26, amended: the steps are issued in the order connect, write file, set
\* executable, run, cleanup. A failed connect, a write file or set executable
\* that exits non-zero, or an exception of execute_command in write file, set
\* executable or run ends the call: no later command is issued and the result
\* is a failure with an error message, which carries the stderr of the write
\* file or set executable that exited non-zero. A run that exits non-zero is
\* followed by cleanup, and the result is a failure with the stderr of the
\* run in its stderr field.
C26_StagedOrderAndShortCircuit ==
    Staged =>
      /\ IssuedInOrder
      /\ \A k \in 1..Len(runner.steps) :
            /\ ShortCircuits(k) =>
                  /\ k = Len(runner.steps)
                  /\ runner.pc = "done"
                  /\ ~runner.result.success
                  /\ runner.result.error_message # << >>
                  /\ runner.steps[k].outcome = "nonzero" =>
                        Contains(runner.result.error_message,
                                 StderrOf(runner.steps[k].step))
            /\ (runner.steps[k].step = "run" /\ runner.steps[k].outcome = "nonzero") =>
                  /\ runner.pc \in {"cleanup", "done"}
                  /\ runner.pc = "done" =>
                        /\ Len(runner.steps) = Len(StagedOrder)
                        /\ runner.steps[Len(StagedOrder)].command = << "rm -f", "path" >>
                  /\ ~runner.result.success
                  /\ runner.result.stderr = StderrOf("run")

\* set executable exited non-zero and the call is over with it
C26_ChmodFailedNothingAfter ==
    /\ Staged
    /\ runner.pc = "done"
    /\ Len(runner.steps) = 3
    /\ runner.steps[3].step = "chmod"
    /\ runner.steps[3].outcome = "nonzero"

\* C27: whatever the cleanup command does, exit non-zero or raise, the result
\* of the call is the result the run step produced, field by field.
C27_CleanupNeverSurfaced ==
    (Staged /\ runner.pc = "done" /\ runner.after_run # {}) =>
        runner.result \in runner.after_run

\* the kind of the first line, read off the pieces of the text
PythonShebang(c) == c[1] = "#!" /\ \E k \in 1..Len(c) : c[k] = "python"
BashShebang(c) == c[1] = "#!" /\ \E k \in 1..Len(c) : c[k] = "bash"
ShShebang(c) == c[1] = "#!" /\ \E k \in 1..Len(c) : c[k] = "sh"
AnyShebang(c) == c[1] = "#!"

\* the interpreter the stated rules select
StatedInterpreter(x, c) ==
    IF lower(x) = ExtPy \/ PythonShebang(c) THEN "python3"
    ELSE IF lower(x) \in {ExtSh, ExtBash} \/ BashShebang(c) \/ ShShebang(c)
    THEN "bash"
    ELSE IF AnyShebang(c) THEN "direct"
    ELSE "bash"

\* C28: a .py extension or a Python shebang selects Python; else a .sh or
\* .bash extension or a bash or sh shebang selects the shell; else another
\* shebang executes the file directly; else the shell is selected. The run
\* command that is issued begins with the interpreter selected.
C28_InterpreterSelection ==
    Staged =>
      \A k \in 1..Len(runner.steps) :
         runner.steps[k].step = "run" =>
            LET how == StatedInterpreter(runner.extension, runner.script_content)
            IN  runner.steps[k].command =
                   IF how = "direct" THEN << "path", "args" >>
                   ELSE << how, "path", "args" >>

\* ---- claims about the inline script and the remote fetch

\* a character of the name of a parameter
NameChar(c) == \E k \in 1..Len(LowerLetters) : LowerLetters[k] = c

\* what a POSIX shell makes of one line: its words, after the double quotes
\* are taken off and the parameters expanded. cur holds the word under way,
\* inq says whether a double quote is open; a quote left open at the end of
\* the line makes the line no command of its own.
RECURSIVE ShLex(_, _, _, _)
ShLex(s, cur, inq, acc) ==
    LET sofar == IF cur = {} THEN << >> ELSE CHOOSE c \in cur : TRUE
    IN  IF s = << >>
        THEN [ok |-> ~inq, words |-> IF cur = {} THEN acc ELSE Append(acc, sofar)]
        ELSE IF Head(s) = "\""
        THEN ShLex(Tail(s), {sofar}, ~inq, acc)
        ELSE IF Head(s) = " " /\ ~inq
        THEN ShLex(Tail(s), {}, inq, IF cur = {} THEN acc ELSE Append(acc, sofar))
        ELSE IF Head(s) = "$" /\ Len(s) > 1 /\ NameChar(s[2])
        THEN LET after == CHOOSE k \in 2..Len(s) :
                              /\ \A j \in 2..k : NameChar(s[j])
                              /\ k = Len(s) \/ ~NameChar(s[k + 1])
             IN  ShLex(SubSeq(s, after + 1, Len(s)),
                       {Append(sofar, "value of a parameter")}, inq, acc)
        ELSE ShLex(Tail(s), {Append(sofar, Head(s))}, inq, acc)

Inline == runner.call = "inline"

\* C29: the inline execution of a script file that exists submits one
\* ShellCommand task. When the arguments hold the words w1..wn, n > 0, the
\* first line of the command is a set command that makes w1..wn the positional
\* parameters, in order, and the text of the script, with the white space at
\* its ends taken off, follows it; when the arguments are the empty text, the
\* command is the text of the script alone.
C29_InlineCommand ==
    (Inline /\ runner.pc = "submitted") =>
      /\ Len(runner.submitted) = 1
      /\ runner.submitted[1].task_type = "shell_command"
      /\ LET cmd  == runner.submitted[1].command
             body == strip(runner.content)
             ws   == words(runner.args)
         IN  IF ws # << >>
             THEN \E k \in 1..Len(cmd) :
                    /\ cmd[k] = "\n"
                    /\ \A j \in 1..(k - 1) : cmd[j] # "\n"
                    /\ SubSeq(cmd, k + 1, Len(cmd)) = body
                    /\ LET line == ShLex(SubSeq(cmd, 1, k - 1), {}, FALSE, << >>)
                       IN  /\ line.ok
                           /\ line.words = << << "s", "e", "t" >>, << "-", "-" >> >> \o ws
             ELSE runner.args = << >> => cmd = body

Fetch == runner.call = "remote_fetch"

\* the inner step failed: the download by both tools, the chmod, or the
\* script
InnerFailed(status) ==
    \/ status["curl"] # 0 /\ status["wget"] # 0
    \/ status["chmod"] # 0
    \/ status["bash"] # 0

\* C30: the remote fetch submits one command made of download (curl, else
\* wget), chmod, run and remove, in this order; when the download by both
\* tools, the chmod or the script fails, the exit code of the command is not
\* zero and the result of the node is a failure.
C30_InnerFailureSurfaces ==
    Fetch =>
      /\ runner.pc # "called" =>
            /\ Len(runner.submitted) = 1
            /\ runner.submitted[1].task_type = "shell_command"
            /\ [k \in 1..4 |-> runner.submitted[1].command[k][1]] =
                  << "curl", "chmod", "bash", "rm" >>
      /\ (runner.pc = "done" /\ InnerFailed(runner.status)) =>
            /\ runner.result.exit_code # {0}
            /\ ~runner.result.success

\* ---- claims about the engine's behaviour

\* the worker of the unit of work ended without a result execute_task_on_node
\* built: it raised (the retry sleep), or it returned None (no attempt made)
Faulted(i) ==
    w[i].pc = "done" /\ (w[i].future = "exception" \/ w[i].value = {})

\* C31: when the worker of a node faulted, execute_task does not raise, every
\* entry of its results list is a TaskResult, and once it has returned the
\* node has exactly one result, a failure with an error message, while a node
\* whose worker ended on exit code 0 has its success.
C31_FaultedWorkerOneFailure ==
    (call = "execute_task" /\ \E i \in Items : Faulted(i)) =>
        /\ mpc # "raised"
        /\ \A k \in 1..Len(results) : results[k] # {}
        /\ (mpc = "returned" /\ Distinct(nodes)) =>
              \A i \in Items :
                 /\ Faulted(i) =>
                       /\ Cardinality(ResultsOf(w[i].node)) = 1
                       /\ \A k \in ResultsOf(w[i].node) :
                             ~Entry(k).success /\ Entry(k).error_message # ""
                 /\ (~Faulted(i) /\ w[i].outcome = "exit0") =>
                       \A k \in ResultsOf(w[i].node) : Entry(k).success

\* the worker is inside an attempt
Active(i) == w[i].pc \notin {"queued", "done", "sleeping"}

\* the steps of one unit of work follow one another: the command is issued
\* only in an attempt whose Session was found alive or whose connect
\* succeeded, and attempt n is entered after n attempts that ended and n
\* sleeps
StepsInOrder(i) ==
    /\ w[i].pc \in {"exec_check", "exec_lock", "exec_inflight"} =>
          w[i].outcome \in {"alive", "connected"}
    /\ w[i].pc # "queued" =>
          /\ w[i].slept = w[i].attempt
          /\ Active(i) /\ w[i].pc # "get_conn" =>
                w[i].made = w[i].attempt + 1 /\ w[i].failed = w[i].attempt
          /\ w[i].pc = "sleeping" =>
                w[i].made = w[i].attempt + 1 /\ w[i].failed = w[i].attempt + 1

\* the worker waits for the lock of its Session, which another worker holds
\* while it connects or runs its command
WaitsForLock(j) ==
    /\ w[j].pc \in {"connect", "exec_lock"}
    /\ \E k \in Items \ {j} :
          /\ w[k].pc \in {"connecting", "exec_inflight"}
          /\ w[k].conn = w[j].conn

\* while worker i sleeps, worker j goes on
NotDelayedBy(i, j) ==
    (w[i].pc = "sleeping" /\ ~ENABLED Worker(j)) => WaitsForLock(j)

FirstQueued(j) ==
    w[j].pc = "queued" /\ \A k \in Items : k < j => w[k].pc # "queued"

\* C32 as stated: the steps for one node are sequential, two attempts for the
\* same node never overlap, and while the worker of a node sleeps before a
\* retry the worker of every other node goes on, the one next in the queue
\* included.
C32_SequentialPerNode ==
    (call = "execute_task" /\ mpc = "collecting") =>
        /\ \A i \in Items : StepsInOrder(i)
        /\ \A i, j \in Items :
              (i # j /\ w[i].node = w[j].node) => ~(Active(i) /\ Active(j))
        /\ \A i, j \in Items :
              (i # j /\ (Active(j) \/ FirstQueued(j))) => NotDelayedBy(i, j)

\* C32, amended: the steps for one entry of the resolved target list are
\* sequential; two attempts for the same node never overlap when the target
\* list names the node once; while the worker of a node sleeps before a retry
\* the workers that have started go on (a worker still queued waits for a
\* free thread of the pool, and the sleeping worker keeps its thread).
C32_SequentialPerTarget ==
    (call = "execute_task" /\ mpc = "collecting") =>
        /\ \A i \in Items : StepsInOrder(i)
        /\ Distinct(nodes) =>
              \A i, j \in Items :
                 (i # j /\ w[i].node = w[j].node) => ~(Active(i) /\ Active(j))
        /\ \A i, j \in Items : (i # j /\ Active(j)) => NotDelayedBy(i, j)
        /\ \A i \in Items : w[i].pc = "sleeping" => w[i].conn = 0

\* one worker sleeps after its first attempt failed while the worker of the
\* other node has its command in flight
C32_SleepBesideCommand ==
    /\ call = "execute_task"
    /\ \E i, j \in Items :
          /\ w[i].pc = "sleeping"
          /\ w[j].pc = "exec_inflight"
          /\ w[i].node # w[j].node

\* the Session object is in the map
InMap(conns, c) == \E n \in DOMAIN conns : conns[n] = c

\* the step takes node n out of the map, or puts another Session under n:
\* then it is the end of disconnect_node, disconnect_all or
\* cleanup_idle_connections
RemovalOnlyByOps ==
    \A n \in DOMAIN connections :
        (n \notin DOMAIN connections' \/ connections'[n] # connections[n]) =>
            /\ op.pc = "locked"
            /\ op'.pc = "idle"
            /\ op.kind \in {"disconnect_node", "disconnect_all", "cleanup"}
            /\ op.kind # "disconnect_all" => n \in op.remove

\* the step is the return of a connect that failed, in worker i
FailedConnectStep(i) ==
    /\ w[i].pc = "connecting"
    /\ w'[i].pc # "connecting"
    /\ w'[i].outcome = "connect_failed"

\* the step is the return of a command that raised, in worker i
FailedCommandStep(i) ==
    /\ w[i].pc = "exec_inflight"
    /\ w'[i].pc # "exec_inflight"
    /\ w'[i].outcome = "raised"

\* the step leaves the map as it is, and Session c, when in the map, is not
\* connected after it
LeftInMapNotConnected(c) ==
    /\ connections' = connections
    /\ InMap(connections, c) => ~sessions'[c].connected

\* an attempt of worker i: get_connection hands out the Session the map holds
\* for the node, and a Session that is not connected is connected again, the
\* same one
AttemptReconnects(i) ==
    /\ (w[i].pc = "get_conn" /\ w'[i].pc # "get_conn"
           /\ w[i].node \in DOMAIN connections) =>
          /\ connections' = connections
          /\ w'[i].conn = connections[w[i].node]
    /\ (w[i].pc = "is_alive" /\ w'[i].pc # "is_alive"
           /\ ~sessions[w[i].conn].connected) =>
          w'[i].pc = "connect" /\ w'[i].conn = w[i].conn

\* C33 as stated: a Session leaves the map only through disconnect_node,
\* disconnect_all or cleanup_idle_connections; a connect that failed and a
\* command that failed leave the Session in the map, not connected; the next
\* attempt is handed the same Session, finds it not alive and connects it
\* again.
C33_SessionLifecycle ==
    [][/\ RemovalOnlyByOps
       /\ \A i \in Items :
             /\ (FailedConnectStep(i) \/ FailedCommandStep(i)) =>
                    LeftInMapNotConnected(w[i].conn)
             /\ AttemptReconnects(i)]_vars

\* C33, amended: a Session leaves the map only through the three operations;
\* a connect that failed leaves the Session in the map, not connected, and
\* the next attempt is handed the same Session, finds it not alive and
\* connects it again; a command that failed leaves the Session in the map with
\* its connected flag as it was, and the next attempt connects that same
\* Session again when is_alive finds its transport no longer active.
C33_SessionLifecycleByFailure ==
    [][/\ RemovalOnlyByOps
       /\ \A i \in Items :
             /\ FailedConnectStep(i) => LeftInMapNotConnected(w[i].conn)
             /\ FailedCommandStep(i) =>
                   /\ connections' = connections
                   /\ InMap(connections, w[i].conn) =>
                         sessions'[w[i].conn].connected
                             = sessions[w[i].conn].connected
             /\ AttemptReconnects(i)
             /\ (w[i].pc = "alive_probe" /\ w'[i].pc # "alive_probe"
                    /\ sessions[w[i].conn].client # "active") =>
                   w'[i].pc = "connect" /\ w'[i].conn = w[i].conn]_vars

\* the second attempt of a worker connects the Session of the map again,
\* after its first attempt ended on a connect that failed
C33_ReconnectingSameSession ==
    \E i \in Items :
        /\ w[i].attempt > 0
        /\ w[i].refused > 0
        /\ w[i].pc = "connecting"
        /\ w[i].node \in DOMAIN connections
        /\ connections[w[i].node] = w[i].conn

\* the steps of the thread issuing pool operations once an operation began
OpStep ==
    \/ \E n \in NodeIds : OpPick(n)
    \/ OpDisconnect
    \/ OpUnlock
    \/ OpConnectBegin
    \/ OpConnectFinish

\* the pool under contention with every thread scheduled again and again and
\* every connect and every command returning or raising
SpecPoolFair ==
    /\ SpecPool
    /\ WF_vars(MainStep)
    /\ \A i \in 1..MaxTargets : WF_vars(Worker(i))
    /\ WF_vars(OpStep)

\* the threads inside the with block of the lock of Session k
LockHolders(k) ==
    {i \in Items : w[i].conn = k /\ w[i].pc \in {"connecting", "exec_inflight"}}

OpHolds(k) == op.pc = "connecting" /\ op.conn = k

\* a lock that is taken is held by one thread, the map lock by the thread
\* inside disconnect_node, disconnect_all or cleanup_idle_connections, and a
\* thread holding the lock of a Session is not one that asks for the map lock
LockDiscipline ==
    /\ maplock <=> op.pc = "locked"
    /\ \A k \in Slots :
          sessions[k].lock =>
             /\ Cardinality(LockHolders(k)) + (IF OpHolds(k) THEN 1 ELSE 0) = 1
             /\ \A i \in LockHolders(k) : w[i].pc # "get_conn"
             /\ OpHolds(k) => ~maplock

\* every call and every operation is over and no lock is held
AllCompleted ==
    /\ mpc \in {"returned", "raised"}
    /\ op.pc = "idle"
    /\ ~maplock
    /\ \A k \in Slots : ~sessions[k].lock

\* C34: locks are taken in the order map lock, then Session lock; a lock that
\* is taken has a holder, on error paths too; and with every connect and
\* command returning or raising, every call and every operation completes.
C34_DeadlockFreedom == []LockDiscipline /\ <>[]AllCompleted

\* disconnect_node, disconnect_all or cleanup_idle_connections holds the map
\* lock and waits for the lock of a Session on which a command is in flight
C34_OpWaitsForSession ==
    /\ op.pc = "locked"
    /\ op.cur # 0
    /\ sessions[connections[op.cur]].lock
    /\ \E i \in Items : w[i].pc = "exec_inflight" /\ w[i].conn = connections[op.cur]

\* ---- the command line: exec COMMAND --nodes VALUE

\* the configured nodes as the NodeSelector holds them
CliNodes ==
    [k \in 1..Len(ConfigNodes) |->
        SelectorNode(ConfigNodes[k].id, ConfigNodes[k].enabled)]

\* the values of --nodes: every text of up to two characters, the empty one
\* standing for the option left out
CliValues == SeqsUpTo(Alphabet, 2)

\* the command line is about to be read; the pool is empty or holds a
\* connected Session of node 1
InitCli ==
    /\ call = "execute_task"
    /\ task = [node_ids |-> << >>, command |-> "arg", extra_params |-> NoExtras,
               task_type |-> "shell_command", retry_count |-> 0,
               retry_delay |-> 0]
    /\ max_concurrent \in Ceilings
    /\ nodes = << >>
    /\ max_workers = 0
    /\ mpc = "command_line"
    /\ w = << >>
    /\ collected = {}
    /\ results = << >>
    /\ cresults = << >>
    /\ maplock = FALSE
    /\ op = IdleOp(0)
    /\ now = 0
    /\ horizon = 0
    /\ creds = PasswordOnly
    /\ PoolEmpty \/ PoolConnected
    /\ runner = NoRunner
    /\ selector = [all_nodes |-> CliNodes, typed |-> "cli", left |-> 1,
                   parses |-> {}]

\* commands.parse_node_selection, the callback of --nodes: None for a value
\* left out, else the ids of the nodes parse_selection returns; an exception
\* of parse_selection becomes click.BadParameter
parse_node_selection(value) ==
    IF value = << >>
    THEN [raised |-> FALSE, node_ids |-> {}]
    ELSE LET p == parse_selection(selector.all_nodes, value)
         IN  IF p.raised THEN [raised |-> TRUE, node_ids |-> {}]
             ELSE [raised |-> FALSE, node_ids |-> {Ids(p.returned)}]

\* node_ids or []
or_empty(node_ids) ==
    IF node_ids = {} THEN << >> ELSE CHOOSE ids \in node_ids : TRUE

\* the exec command: the callback of --nodes, then
\* task_executor.execute_shell_command(command, node_ids=nodes), which builds
\* the Task and calls execute_task
CliExec ==
    /\ mpc = "command_line"
    /\ \E value \in CliValues :
          LET r == parse_node_selection(value)
          IN  /\ selector' = [selector EXCEPT
                     !.left = 0,
                     !.parses = {[selection |-> value, raised |-> r.raised,
                                  node_ids |-> r.node_ids]}]
              /\ IF r.raised
                 THEN mpc' = "raised" /\ UNCHANGED task
                 ELSE /\ mpc' = "start"
                      /\ task' = [task EXCEPT !.node_ids = or_empty(r.node_ids)]
    /\ UNCHANGED << call, max_concurrent, nodes, max_workers, w, collected,
                    results, cresults, connections, sessions, maplock, op, now,
                    horizon, creds, runner >>

NextCli ==
    \/ CliExec
    \/ Submit
    \/ \E i \in Items : Start(i)
    \/ \E i \in Items : GetConnection(i)
    \/ \E i \in Items : IsAlive(i)
    \/ \E i \in Items : IsAliveProbe(i)
    \/ \E i \in Items : ConnectBegin(i)
    \/ \E i \in Items : ConnectFinish(i)
    \/ \E i \in Items : ExecCheck(i)
    \/ \E i \in Items : ExecIssue(i)
    \/ \E i \in Items : ExecReturn(i)
    \/ \E i \in Items : Collect(i)
    \/ Return
    \/ \E k \in Slots : TransportDrop(k)

SpecCli == InitCli /\ [][NextCli]_vars

\* the nodes a worker of the call asked a Session for
Contacted == {w[i].node : i \in {j \in Items : w[j].made > 0}}

\* C35: when --nodes was given a text that is not blank, the nodes the
\* dispatcher contacts are among the nodes the selection resolved to; a
\* selection that resolved to no node has the command run on no node.
C35_ContactedWithinSelection ==
    \A p \in selector.parses :
        (selector.typed = "cli" /\ ~Blank(p.selection)) =>
            \A ids \in p.node_ids :
                Contacted \subseteq {ids[k] : k \in 1..Len(ids)}

\* C36: a command is never in flight on a Session without a handle, and an
\* execute_command that finds the handle cleared once it has the lock of the
\* Session (a disconnect, a cleanup or a failed connect came between its check
\* and the lock) fails with the not-connected error.
C36_ClearedHandleRefused ==
    \A i \in Items :
        /\ w[i].pc = "exec_inflight" => sessions[w[i].conn].client # "None"
        /\ w[i].outcome = "no_handle" =>
              w[i].result.error_message = "not connected"

\* C37: cleanup_idle_connections passes over a Session on which a command is
\* in flight, and it closes no Session whose last_activity a command that
\* completed has refreshed by then: the Session it closes is idle at the
\* moment it is closed.
C37_CleanupSparesSessionsInUse ==
    [][(op.kind = "cleanup" /\ op.pc = "locked") =>
          /\ \A n \in DOMAIN connections :
                (op.cur = 0 /\ op'.cur = n) =>
                   \A i \in Items :
                      ~(w[i].pc = "exec_inflight" /\ w[i].conn = connections[n])
          /\ (op.cur # 0 /\ op'.cur = 0) =>
                is_idle(sessions[connections[op.cur]], op.time, op.timeout)]_vars

\* the last attempt of the worker ended with a command that returned
CommandReturned(i) ==
    w[i].future = "result" /\ w[i].outcome \in {"exit0", "nonzero"}

MaxUpdates == 2

\* ConfigManager.load_config: the cached Config, or the file read anew
load_config(s) == IF s.cache = {} THEN s.file ELSE CHOOSE c \in s.cache : TRUE

\* node.enabled = enabled on the first node of the list with that id
set_enabled(ns, node_id, enabled) ==
    LET hits == {k \in 1..Len(ns) : ns[k].id = node_id}
    IN  [k \in 1..Len(ns) |->
            IF k \in hits /\ \A j \in hits : k <= j
            THEN [ns[k] EXCEPT !.enabled = enabled] ELSE ns[k]]

\* ConfigManager.update_node_status followed by save_config: the node object
\* of the loaded Config is changed, the Config is written to the file and the
\* cache is cleared. shared says that the NodeConfig objects of the cache are
\* the ones NodeSelector.all_nodes holds, as they are from the construction of
\* the selector until the cache is first cleared.
update_node_status(s, node_id, enabled) ==
    [s EXCEPT !.all_nodes = IF s.shared THEN set_enabled(@, node_id, enabled)
                            ELSE @,
              !.file = set_enabled(load_config(s), node_id, enabled),
              !.cache = {},
              !.shared = FALSE,
              !.updates = @ + 1]

\* parse_selection reading config_manager.get_nodes() where the code does (an
\* empty or blank text, all, all-enabled) and self.all_nodes elsewhere
parse_selection_live(config_nodes, all_nodes, selection) ==
    IF strip(selection) = << >>
       \/ lower(strip(selection)) \in {KwAll, KwAllEnabled}
    THEN [raised |-> FALSE, keyword |-> TRUE, selected_nodes |-> << >>,
          returned |-> enabled_nodes(config_nodes)]
    ELSE parse_selection(all_nodes, selection)

reads_config(selection) ==
    strip(selection) = << >> \/ lower(strip(selection)) \in {KwAll, KwAllEnabled}

ToggleExprs ==
    {KwAll, KwAllEnabled, KwAllDisabled, KwAllAll, << "0" >>, << "1", "-", "2" >>}

\* a NodeSelector was constructed: all_nodes is the node list of the Config
\* just loaded and cached
InitToggle ==
    /\ EngineAtRest
    /\ PoolEmpty
    /\ runner = NoRunner
    /\ \E ns \in {<< N0, N1, N2 >>, << N1, N2 >>} :
          selector = [all_nodes |-> ns, typed |-> "toggle", left |-> 2,
                      parses |-> {}, cache |-> {ns}, shared |-> TRUE,
                      file |-> ns, updates |-> 0]

\* config_manager.update_node_status(node_id, enabled)
UpdateNodeStatus ==
    /\ selector.typed = "toggle"
    /\ selector.updates < MaxUpdates
    /\ \E node_id \in 0..3, enabled \in BOOLEAN :
          selector' = update_node_status(selector, node_id, enabled)
    /\ UNCHANGED << call, task, max_concurrent, nodes, max_workers, mpc, w,
                    collected, results, cresults, connections, sessions,
                    maplock, op, now, horizon, creds, runner >>

\* node_selector.parse_selection(selection); current keeps what the
\* configuration holds at the time of the call
ParseCurrent ==
    /\ selector.typed = "toggle"
    /\ selector.left > 0
    /\ \E selection \in ToggleExprs :
          selector' = [selector EXCEPT
              !.left = @ - 1,
              !.cache = IF reads_config(selection) THEN {load_config(selector)}
                        ELSE @,
              !.parses = @ \cup
                  {[selection |-> selection, current |-> load_config(selector)]
                      @@ parse_selection_live(load_config(selector),
                                              selector.all_nodes, selection)}]
    /\ UNCHANGED << call, task, max_concurrent, nodes, max_workers, mpc, w,
                    collected, results, cresults, connections, sessions,
                    maplock, op, now, horizon, creds, runner >>

NextToggle == UpdateNodeStatus \/ ParseCurrent

SpecToggle == InitToggle /\ [][NextToggle]_vars

\* C39: whatever enable and disable operations came before a call,
\* all-disabled returns exactly the nodes disabled at the time of the call,
\* every node another selection returns carries the enabled flag it has at
\* the time of the call, and over one state of the configuration all-enabled
\* and all-disabled return no node in common.
C39_SelectorFollowsUpdates ==
    selector.typed = "toggle" =>
        /\ \A p \in selector.parses :
              /\ Typed(p, KwAllDisabled) =>
                    IdsOf(p) = {p.current[k].id :
                                   k \in {j \in 1..Len(p.current) :
                                             ~p.current[j].enabled}}
              /\ \A n \in NodesOf(p) :
                    \E k \in 1..Len(p.current) : p.current[k] = n
        /\ \A p, q \in selector.parses :
              (Typed(p, KwAllEnabled) /\ Typed(q, KwAllDisabled)
                  /\ p.current = q.current) => IdsOf(p) \cap IdsOf(q) = {}

\* ---- the temporary file of the staged script

\* the write file step went through: the temporary file is on the node
WriteSucceeded ==
    \E k \in 1..Len(runner.steps) :
        runner.steps[k].step = "write" /\ runner.steps[k].outcome = "exit0"

\* the command removing the temporary file was issued
CleanupIssued ==
    \E k \in 1..Len(runner.steps) :
        runner.steps[k].step = "cleanup" /\ runner.steps[k].command = << "rm -f", "path" >>

\* C40: once the write file step has succeeded, the cleanup command removing
\* the temporary file is issued before the result of the node is returned,
\* whether set executable or run succeeded, exited non-zero or raised.
C40_CleanupAfterWrite ==
    (Staged /\ runner.pc = "done" /\ WriteSucceeded) => CleanupIssued
====
